---- MODULE Spec2Model ----
(***************************************************************************)
(* McEliece over concatenated short block codes: the GF(2) helpers of      *)
(* code/gf2.py, the Hamming(15,11) and BCH(15,7,2) block codes, and the    *)
(* keygen / encrypt / decrypt operations of the two scheme classes.        *)
(*                                                                         *)
(* A Python list of bits is a sequence; Python index i is index i+1 here.  *)
(* A Python int used as a polynomial over GF(2) is an integer.             *)
(***************************************************************************)
EXTENDS Integers, Sequences, FiniteSets, TLC

VARIABLES
    bpc,      \* block-codec run: "start" | "encoded" | "decoded" | "raised"
    bcode,    \* block-codec run: "hamming" | "bch"
    bmsg,     \* block-codec run: the K-bit message handed to encode_block
    bword,    \* block-codec run: the codeword, then the received 15-bit word
    berr,     \* block-codec run: the positions the channel flipped
    bout,     \* block-codec run: what the decoder returned, <<msg, ok>>
    gpc,      \* gf2 run: "start" | "inverted" | "raised" | "multiplied" | "applied"
    gin,      \* gf2 run: the matrix (or permutation) drawn as input
    gheld,    \* gf2 run: the caller's matrix object, as it is after the call
    ginv,     \* gf2 run: what mat_inv returned or raised; the inverse permutation
    gprod,    \* gf2 run: <<mat_mul(S, S_inv), mat_mul(S_inv, S)>>
    gvec,     \* gf2 run: <<v, apply_permutation(v, P), ... back through P_inv>>
    pc,       \* scheme: "new" | "refused" | "ready" | "sampling" | "failed" |
              \*         "keyed" | "encrypted" | "encrypt raised" | "decrypted" |
              \*         "decrypt raised" | "received decrypted" | "received raised"
    scheme,   \* scheme: the fields __init__ sets (L, errors_per_block, n, k, _G, ...)
    rejected, \* keygen: the sample random_invertible_matrix discarded last
    S,        \* keygen: the sample random_invertible_matrix returned
    pub,      \* the PublicKey keygen returned
    priv,     \* the PrivateKey keygen returned
    m_bits,   \* encrypt: the message
    e_private,\* encrypt: the error vector _sample_error_private returned
    c_bits,   \* encrypt: the ciphertext returned
    dec,      \* decrypt: <<m, success>>
    exc,      \* the exception the last call raised, None if it returned
    draws,    \* the last call's draws: <<what was drawn, the generator drawn from>>
    tpc,      \* syndrome_table call: "start" | "singles" | "pairs" | "returned"
    tt,       \* syndrome_table call: the argument t
    ti,       \* syndrome_table call: the loop variable i
    tj,       \* syndrome_table call: the loop variable j
    ttable,   \* syndrome_table call: the dict `table` under construction
    wpc,      \* word run: "start" | "decoded" | "raised"
    wcode,    \* word run: "hamming" | "bch"
    wword,    \* word run: the 15-bit word r handed to the decoder
    wt,       \* word run: the t the decoder's table was built with
    wsyn,     \* word run: the syndrome the decoder computed (its local syn)
    wout,     \* word run: what the decoder returned, <<msg, ok>>
    mpc,      \* product run: "start" | "multiplied" | "mul raised" | "applied" | "vec raised"
    mA,       \* product run: the matrix A
    mB,       \* product run: the matrix B
    mprod,    \* product run: what mat_mul(A, B) returned or raised
    mvec,     \* product run: what mat_vec_mul(A[0], B) returned or raised
    npc,      \* numpy tree run: "start" | "encoded" | "decoded"
    nL,       \* numpy tree run: the number of blocks L of the BlockHammingCode
    nmsg,     \* numpy tree run: the message handed to encode
    ncode,    \* numpy tree run: the codeword encode returned
    nsyn,     \* numpy tree run: the syndromes s that decode computed, block by block
    ndec,     \* numpy tree run: what decode returned
    frames,   \* LRU run: the page frames, (page_num, last_access_time) each
    clock,    \* LRU run: the clock, one tick per access
    hit_count,\* LRU run: the hits counted
    miss_count,\* LRU run: the misses counted
    access_sequence\* LRU run: the part of access_sequence the loop has read

bvars == <<bpc, bcode, bmsg, bword, berr, bout>>
gvars == <<gpc, gin, gheld, ginv, gprod, gvec>>
svars == <<pc, scheme, rejected, S, pub, priv, m_bits, e_private, c_bits, dec, exc, draws>>

tvars == <<tpc, tt, ti, tj, ttable>>

wvars == <<wpc, wcode, wword, wt, wsyn, wout>>

mvars == <<mpc, mA, mB, mprod, mvec>>

nvars == <<npc, nL, nmsg, ncode, nsyn, ndec>>

lvars == <<frames, clock, hit_count, miss_count, access_sequence>>

\* the variables of the runs defined further down
xvars == <<wvars, mvars, nvars, lvars>>

vars == <<bvars, gvars, svars, tvars, xvars>>

----------------------------------------------------------------------------
(* Bounds of the model.                                                    *)

\* error patterns handed to a block decoder have weight <= T + MaxExcess
MaxExcess == 3
\* mat_inv and mat_mul are run on every square bit matrix of size <= MaxDim
MaxDim == 3
\* permutations are run on every permutation of [0, n) for n <= MaxPermLen
MaxPermLen == 4

\* a scheme has 1..MaxL blocks
MaxL == 2

----------------------------------------------------------------------------
(* Python values.                                                          *)

ValueError == "ValueError"
AssertionError == "AssertionError"
ZeroDivisionError == "ZeroDivisionError"
None == "None"

\* what a call that may raise gives back: the value it returns, or the
\* exception it raises
Return(v) == [raised |-> FALSE, value |-> v]
Raise(e) == [raised |-> TRUE, value |-> e]

\* materialise a list comprehension as a list
List(f) == SubSeq(f, 1, Len(f))

\* x >> i & 1
BitOf(x, i) == (x \div (2 ^ i)) % 2

RECURSIVE XorInt(_, _)
\* a ^ b on non-negative ints
XorInt(a, b) ==
    IF a = 0 THEN b
    ELSE IF b = 0 THEN a
    ELSE ((a + b) % 2) + 2 * XorInt(a \div 2, b \div 2)

\* a ^ b on bits
Xor(a, b) == (a + b) % 2

\* gf2.weight: sum(1 for b in vec if b)
weight(vec) == Cardinality({i \in 1..Len(vec) : vec[i] # 0})

\* all bit lists of length n
BitVectors(n) == [1..n -> {0, 1}]

\* [0] * n with ones at the (0-indexed) positions of the set pos
UnitVec(n, pos) == List([i \in 1..n |-> IF (i - 1) \in pos THEN 1 ELSE 0])

\* elementwise xor of two lists of the same length
VecXor(a, b) == List([i \in 1..Len(a) |-> Xor(a[i], b[i])])

\* An int used as a bit mask (gf2.py) is the set of its one-bit positions:
\* 1 << i is {i}, x & y is the intersection, bin(x).count("1") the cardinality.

\* gf2.bits_to_int: val |= 1 << i for every bits[i] with b & 1
bits_to_int(bits) == {i \in 0..(Len(bits) - 1) : bits[i + 1] % 2 = 1}

\* gf2.int_to_bits: [(value >> i) & 1 for i in range(length)]
int_to_bits(value, length) == List([i \in 1..length |-> IF (i - 1) \in value THEN 1 ELSE 0])

\* as parity, for x != 0
parity_nonzero(x) == IF x = {} THEN 0 ELSE 1

\* gf2.parity: bin(x).count("1") & 1
parity(x) == Cardinality(x) % 2

----------------------------------------------------------------------------
(* GF(2) matrices and permutations: code/gf2.py                            *)

\* gf2.mat_identity
mat_identity(n) == List([i \in 1..n |-> int_to_bits({i - 1}, n)])

\* row[:] for every row
copy_rows(mat) == List([r \in 1..Len(mat) |-> SubSeq(mat[r], 1, Len(mat[r]))])

\* as find_pivot, searching range(n) instead of range(col, n)
find_pivot_any_row(A, col) ==
    LET hits == {r \in 1..Len(A) : A[r][col] # 0}
    IN  IF hits = {} THEN 0 ELSE CHOOSE r \in hits : \A q \in hits : r <= q

\* the first r in range(col, n) with A[r][col]; rows are 1-indexed here, and
\* 0 stands for pivot = None
find_pivot(A, col) ==
    LET hits == {r \in col..Len(A) : A[r][col] # 0}
    IN  IF hits = {} THEN 0 ELSE CHOOSE r \in hits : \A q \in hits : r <= q

\* M[col], M[pivot] = M[pivot], M[col]
swap_rows(M, col, pivot) ==
    List([r \in 1..Len(M) |-> IF r = col THEN M[pivot] ELSE IF r = pivot THEN M[col] ELSE M[r]])

\* as eliminate, clearing only the rows below the pivot
eliminate_below(M, A, col) ==
    List([r \in 1..Len(M) |->
             IF r > col /\ A[r][col] # 0
             THEN List([c \in 1..Len(M[r]) |-> Xor(M[r][c], M[col][c])])
             ELSE M[r]])

\* for r in range(n): if r != col and A[r][col]: M[r][c] ^= M[col][c] for all c
\* (M is A or its identity shadow; row col is not written, so the rows are
\* independent of the order of the loop)
eliminate(M, A, col) ==
    List([r \in 1..Len(M) |->
             IF r # col /\ A[r][col] # 0
             THEN List([c \in 1..Len(M[r]) |-> Xor(M[r][c], M[col][c])])
             ELSE M[r]])

RECURSIVE mat_inv_loop(_, _, _)
\* the loop over col of mat_inv, from column col on
mat_inv_loop(A, I, col) ==
    IF col > Len(A) \/ col > Len(I) THEN Return(I)
    ELSE LET pivot == find_pivot(A, col)
         IN  IF pivot = 0 THEN Raise(ValueError)
             ELSE LET A1 == IF pivot # col THEN swap_rows(A, col, pivot) ELSE A
                      I1 == IF pivot # col THEN swap_rows(I, col, pivot) ELSE I
                  IN  mat_inv_loop(eliminate(A1, A1, col), eliminate(I1, A1, col), col + 1)

\* gf2.mat_inv: the inverse, or ValueError ("矩阵不可逆")
mat_inv(mat) ==
    IF \E r \in 1..Len(mat) : Len(mat[r]) # Len(mat) THEN Raise(AssertionError)
    ELSE mat_inv_loop(copy_rows(mat), mat_identity(Len(mat)), 1)

\* the caller's matrix after mat_inv(mat): the elimination writes the copy A
\* and the shadow I only
mat_inv_leaves(mat) == mat

\* cols[j] of mat_mul and mat_vec_mul: the mask of the rows i < m with B[i][j]
col_mask(B, m, j) == {i \in 0..(m - 1) : B[i + 1][j] # 0}

\* gf2.mat_mul
mat_mul(A, B) ==
    LET k == Len(A)
        m == Len(A[1])
    IN  IF Len(B) # m THEN Raise(AssertionError)
        ELSE LET n == Len(B[1])
                 cols == List([j \in 1..n |-> col_mask(B, m, j)])
             IN  Return(List([r \in 1..k |->
                         LET row_mask == bits_to_int(A[r])
                         IN  List([c \in 1..n |-> parity(row_mask \cap cols[c])])]))

\* gf2.mat_vec_mul
mat_vec_mul(vec, mat) ==
    IF Len(vec) # Len(mat) THEN Raise(AssertionError)
    ELSE LET n == Len(mat[1])
             cols == List([j \in 1..n |-> col_mask(mat, Len(vec), j)])
             row_mask == bits_to_int(vec)
         IN  Return(List([j \in 1..n |-> parity(row_mask \cap cols[j])]))

\* gf2.apply_permutation: [vec[perm[i]] for i in range(len(perm))]
apply_permutation(vec, perm) == List([i \in 1..Len(perm) |-> vec[perm[i] + 1]])

\* as apply_permutation_matrix, with row[i] written to column perm[i]
apply_permutation_matrix_scattered(mat, perm) ==
    List([r \in 1..Len(mat) |->
        List([j \in 1..Len(perm) |->
            mat[r][CHOOSE i \in 1..Len(perm) : perm[i] = j - 1]])])

\* gf2.apply_permutation_matrix: [[row[j] for j in perm] for row in mat]
apply_permutation_matrix(mat, perm) ==
    List([r \in 1..Len(mat) |-> List([i \in 1..Len(perm) |-> mat[r][perm[i] + 1]])])

RECURSIVE invert_loop(_, _, _)
\* for i, p in enumerate(P): P_inv[p] = i, from the i-th item on (1-indexed)
invert_loop(P, P_inv, i) ==
    IF i > Len(P) \/ i > Len(P_inv) THEN P_inv
    ELSE invert_loop(P, [P_inv EXCEPT ![P[i] + 1] = i - 1], i + 1)

\* as inverse_permutation, with the loop writing P_inv[i] = p
inverse_permutation_copied(P) == List([i \in 1..Len(P) |-> P[i]])

\* keygen's P_inv: [0] * n, then the loop
inverse_permutation(P) == invert_loop(P, List([i \in 1..Len(P) |-> 0]), 1)

----------------------------------------------------------------------------
(* BCH(15,7,2): code/bch_mceliece/bch_code.py                              *)

N == 15
BCH_K == 7
BCH_T == 2
\* (1 << 8) | (1 << 7) | (1 << 6) | (1 << 4) | 1
\* as G_POLY, for x^8 + x^6 + x^5 + x^4 + 1
G_POLY_5_6_8 == 256 + 64 + 32 + 16 + 1

G_POLY == 256 + 128 + 64 + 16 + 1

RECURSIVE bit_length(_)
bit_length(p) == IF p = 0 THEN 0 ELSE 1 + bit_length(p \div 2)

poly_degree(p) == IF p # 0 THEN bit_length(p) - 1 ELSE -1

RECURSIVE poly_mul_loop(_, _, _)
poly_mul_loop(a, b, res) ==
    IF b = 0 THEN res
    ELSE poly_mul_loop(a * 2, b \div 2, IF b % 2 = 1 THEN XorInt(res, a) ELSE res)

\* as poly_mul, with the integer product (carries) in place of the XOR sum
poly_mul_carried(a, b) == a * b

poly_mul(a, b) == poly_mul_loop(a, b, 0)

RECURSIVE poly_divmod_loop(_, _, _, _)
poly_divmod_loop(quot, rem, divisor, ddeg) ==
    IF poly_degree(rem) >= ddeg
    THEN LET shift == poly_degree(rem) - ddeg
         IN  poly_divmod_loop(XorInt(quot, 2 ^ shift),
                              XorInt(rem, divisor * (2 ^ shift)), divisor, ddeg)
    ELSE <<quot, rem>>

\* (quot, rem); ZeroDivisionError on a zero divisor
poly_divmod(dividend, divisor) ==
    IF divisor = 0 THEN Raise(ZeroDivisionError)
    ELSE Return(poly_divmod_loop(0, dividend, divisor, poly_degree(divisor)))

poly_to_bits(p, length) == List([i \in 1..length |-> BitOf(p, i - 1)])

\* the loop "if b: poly |= 1 << i" shared by encode_block, compute_syndrome_vec
\* and decode_block
RECURSIVE bits_to_poly_from(_, _)
bits_to_poly_from(vec, i) ==
    IF i > Len(vec) THEN 0
    ELSE (IF vec[i] # 0 THEN 2 ^ (i - 1) ELSE 0) + bits_to_poly_from(vec, i + 1)

bits_to_poly(vec) == bits_to_poly_from(vec, 1)

bch_encode_block(msg7) ==
    IF Len(msg7) # BCH_K THEN Raise(ValueError)
    ELSE Return(poly_to_bits(poly_mul(bits_to_poly(msg7), G_POLY), N))

compute_syndrome_vec(vec) == poly_divmod(bits_to_poly(vec), G_POLY).value[2]

\* x15_minus_1 = (1 << 15) | 1; the quotient by G_POLY, AssertionError when
\* the remainder is not zero
compute_h_poly ==
    LET x15_minus_1 == 2 ^ 15 + 1
        qr == poly_divmod(x15_minus_1, G_POLY).value
    IN  IF qr[2] # 0 THEN Raise(AssertionError) ELSE Return(qr[1])

\* the module-level H_POLY = compute_h_poly()
H_POLY == compute_h_poly.value

\* one row per shift in range(N - K): (h << shift) masked to N bits, xor the
\* overflow taken from the masked value, as poly_to_bits
parity_check_matrix ==
    LET h == H_POLY
    IN  List([row \in 1..(N - BCH_K) |->
            LET shift == row - 1
                poly == (h * (2 ^ shift)) % (2 ^ N)
                overflow == poly \div (2 ^ N)
            IN  poly_to_bits(XorInt(poly % (2 ^ N), overflow), N)])

\* a dict is the sequence of its <<key, value>> items in insertion order
HasKey(table, key) == \E i \in 1..Len(table) : table[i][1] = key
Lookup(table, key) == table[CHOOSE i \in 1..Len(table) : table[i][1] = key][2]
Keys(table) == {table[i][1] : i \in 1..Len(table)}

\* table.setdefault(key, value)
setdefault(table, key, value) ==
    IF HasKey(table, key) THEN table ELSE Append(table, <<key, value>>)

\* e = [0] * N; e[i] = 1
single_error(i) == UnitVec(N, {i})

\* as pair_error, with e[j] left at 0
pair_error_first_only(i, j) == UnitVec(N, {i})

\* e = [0] * N; e[i] = e[j] = 1
pair_error(i, j) == UnitVec(N, {i, j})

RECURSIVE insert_singles(_, _)
\* for i in range(N): table.setdefault(compute_syndrome_vec(e_i), e_i)
insert_singles(table, i) ==
    IF i >= N THEN table
    ELSE LET e == UnitVec(N, {i})
             s == compute_syndrome_vec(e)
         IN  IF HasKey(table, s) THEN insert_singles(table, i + 1)
             ELSE insert_singles(Append(table, <<s, e>>), i + 1)

RECURSIVE insert_row(_, _, _)
\* for j in range(i + 1, N): table.setdefault(compute_syndrome_vec(e_ij), e_ij)
insert_row(table, i, j) ==
    IF j >= N THEN table
    ELSE LET e == UnitVec(N, {i, j})
             s == compute_syndrome_vec(e)
         IN  IF HasKey(table, s) THEN insert_row(table, i, j + 1)
             ELSE insert_row(Append(table, <<s, e>>), i, j + 1)

RECURSIVE insert_pairs(_, _)
\* for i in range(N): for j in range(i + 1, N): ...
insert_pairs(table, i) ==
    IF i >= N THEN table ELSE insert_pairs(insert_row(table, i, i + 1), i + 1)

\* as syndrome_table, with the pairs guarded by t > 2
syndrome_table_pairs_off(t) ==
    LET t0 == << <<0, UnitVec(N, {})>> >>
        t1 == insert_singles(t0, 0)
    IN  IF t > 2 THEN insert_pairs(t1, 0) ELSE t1

syndrome_table(t) ==
    LET t0 == << <<0, UnitVec(N, {})>> >>
        t1 == insert_singles(t0, 0)
    IN  IF t >= 2 THEN insert_pairs(t1, 0) ELSE t1

\* the two tables a scheme can hold, built once
SyndTable1 == syndrome_table(1)
SyndTable2 == syndrome_table(2)

\* as bch_decode_block, reporting success on the absent-syndrome branch
bch_decode_block_absent_ok(r, synd_table) ==
    IF Len(r) # N THEN Raise(ValueError)
    ELSE LET syn == compute_syndrome_vec(r)
         IN  IF ~HasKey(synd_table, syn)
             THEN Return(<<SubSeq(r, 1, BCH_K), TRUE>>)
             ELSE LET e  == Lookup(synd_table, syn)
                      c  == List([i \in 1..N |-> Xor(r[i], e[i])])
                      qr == poly_divmod(bits_to_poly(c), G_POLY).value
                  IN  Return(<<poly_to_bits(qr[1], BCH_K), qr[2] = 0>>)

\* as bch_decode_block, raising on the absent-syndrome branch
bch_decode_block_absent_raises(r, synd_table) ==
    IF Len(r) # N THEN Raise(ValueError)
    ELSE LET syn == compute_syndrome_vec(r)
         IN  IF ~HasKey(synd_table, syn)
             THEN Raise(ValueError)
             ELSE LET e  == Lookup(synd_table, syn)
                      c  == List([i \in 1..N |-> Xor(r[i], e[i])])
                      qr == poly_divmod(bits_to_poly(c), G_POLY).value
                  IN  Return(<<poly_to_bits(qr[1], BCH_K), qr[2] = 0>>)

bch_decode_block(r, synd_table) ==
    IF Len(r) # N THEN Raise(ValueError)
    ELSE LET syn == compute_syndrome_vec(r)
         IN  IF ~HasKey(synd_table, syn)
             THEN Return(<<SubSeq(r, 1, BCH_K), FALSE>>)
             ELSE LET e  == Lookup(synd_table, syn)
                      c  == List([i \in 1..N |-> Xor(r[i], e[i])])
                      qr == poly_divmod(bits_to_poly(c), G_POLY).value
                  IN  Return(<<poly_to_bits(qr[1], BCH_K), qr[2] = 0>>)

bch_base_generator ==
    List([i \in 1..BCH_K |->
             bch_encode_block([j \in 1..BCH_K |-> IF j = i THEN 1 ELSE 0]).value])

----------------------------------------------------------------------------
(* Hamming(15,11): code/hamming_mceliece/hamming_code.py                   *)

HAM_K == 11
HAM_T == 1
PARITY_POS == <<1, 2, 4, 8>>
ParityPosSet == {PARITY_POS[i] : i \in 1..Len(PARITY_POS)}

RECURSIVE DataPosFrom(_)
DataPosFrom(i) ==
    IF i >= 16 THEN <<>>
    ELSE (IF i \notin ParityPosSet THEN <<i>> ELSE <<>>) \o DataPosFrom(i + 1)

\* [i for i in range(1, 16) if i not in PARITY_POS]
DATA_POS == DataPosFrom(1)

RECURSIVE SumMasked(_, _, _)
\* sum(code[i] for i in range(1, 16) if i & 2**j), code indexed 0..15
SumMasked(code, j, i) ==
    IF i >= 16 THEN 0
    ELSE (IF BitOf(i, j) = 1 THEN code[i] ELSE 0) + SumMasked(code, j, i + 1)

ParityBit(code, j) == SumMasked(code, j, 1) % 2

ham_encode_block(msg11) ==
    IF Len(msg11) # 11 THEN Raise(ValueError)
    ELSE LET \* code = [0] * 16, then code[pos] = bit & 1 along zip(msg11, DATA_POS)
             code0 == [p \in 0..15 |->
                          IF \E t \in 1..Len(DATA_POS) : DATA_POS[t] = p
                          THEN msg11[CHOOSE t \in 1..Len(DATA_POS) : DATA_POS[t] = p] % 2
                          ELSE 0]
             code1 == [p \in 0..15 |->
                          CASE p = 1 -> ParityBit(code0, 0)
                            [] p = 2 -> ParityBit(code0, 1)
                            [] p = 4 -> ParityBit(code0, 2)
                            [] p = 8 -> ParityBit(code0, 3)
                            [] OTHER -> code0[p]]
         IN  Return(List([i \in 1..15 |-> code1[i]]))

\* as ham_syndrome, with the four bits packed in the opposite order
ham_syndrome_reversed(code15) ==
    LET code == [p \in 0..15 |-> IF p = 0 THEN 0 ELSE code15[p]]
    IN  ParityBit(code, 3) + 2 * ParityBit(code, 2)
        + 4 * ParityBit(code, 1) + 8 * ParityBit(code, 0)

\* s1 | (s2 << 1) | (s4 << 2) | (s8 << 3) of a 15-bit word
ham_syndrome(code15) ==
    LET code == [p \in 0..15 |-> IF p = 0 THEN 0 ELSE code15[p]]
    IN  ParityBit(code, 0) + 2 * ParityBit(code, 1)
        + 4 * ParityBit(code, 2) + 8 * ParityBit(code, 3)

syndrome_decode_block(code15) ==
    IF Len(code15) # 15 THEN Raise(ValueError)
    ELSE LET code == [p \in 0..15 |-> IF p = 0 THEN 0 ELSE code15[p]]
             syn  == ham_syndrome(code15)
             flip == syn # 0 /\ 1 <= syn /\ syn <= 15
             fixed == IF flip THEN [code EXCEPT ![syn] = Xor(code[syn], 1)] ELSE code
         IN  Return(<<List([t \in 1..Len(DATA_POS) |-> fixed[DATA_POS[t]]]), flip>>)

ham_base_generator ==
    List([i \in 1..11 |->
             ham_encode_block([j \in 1..11 |-> IF j = i THEN 1 ELSE 0]).value])

----------------------------------------------------------------------------
(* The two block codes behind one interface.                               *)

Families == {"hamming", "bch"}
KOf(fam) == IF fam = "hamming" THEN HAM_K ELSE BCH_K
TOf(fam) == IF fam = "hamming" THEN HAM_T ELSE BCH_T

encode_block(fam, msg) ==
    IF fam = "hamming" THEN ham_encode_block(msg) ELSE bch_encode_block(msg)

\* the decoder a scheme calls on one block; table is the scheme's syndrome
\* table (unused by Hamming)
decode_block(fam, r, table) ==
    IF fam = "hamming" THEN syndrome_decode_block(r) ELSE bch_decode_block(r, table)

----------------------------------------------------------------------------
(* Block-codec runs: encode one message, corrupt it, decode it.            *)

\* a run of another kind leaves these variables idle
BIdle ==
    /\ bpc = None /\ bcode = None /\ bmsg = None
    /\ bword = None /\ berr = None /\ bout = None

GIdle ==
    /\ gpc = None /\ gin = None /\ gheld = None
    /\ ginv = None /\ gprod = None /\ gvec = None

\* a name not bound yet: to an object (the scheme, a key), or to a list or
\* a tuple (a matrix, a bit vector, decrypt's result)
NoObject == [none |-> TRUE]
Unbound == <<>>

SUnbound ==
    /\ scheme = NoObject /\ pub = NoObject /\ priv = NoObject
    /\ rejected = Unbound /\ S = Unbound
    /\ m_bits = Unbound /\ e_private = Unbound /\ c_bits = Unbound /\ dec = Unbound
    /\ exc = None /\ draws = {}

SIdle == pc = None /\ SUnbound

TIdle == tpc = None /\ tt = None /\ ti = None /\ tj = None /\ ttable = None

WIdle ==
    /\ wpc = None /\ wcode = None /\ wword = None
    /\ wt = None /\ wsyn = None /\ wout = None

MIdle == mpc = None /\ mA = None /\ mB = None /\ mprod = None /\ mvec = None

NIdle ==
    /\ npc = None /\ nL = None /\ nmsg = None
    /\ ncode = None /\ nsyn = None /\ ndec = None

LIdle ==
    /\ frames = None /\ clock = None /\ hit_count = None
    /\ miss_count = None /\ access_sequence = None

XIdle == WIdle /\ MIdle /\ NIdle /\ LIdle

RECURSIVE PosSets(_)
\* the sets of at most w positions of a 15-bit block
PosSets(w) ==
    IF w = 0 THEN {{}}
    ELSE LET smaller == PosSets(w - 1)
         IN  smaller \cup {s \cup {i} : s \in smaller, i \in 0..(N - 1)}

\* error positions within a code's correction capacity, and past it
HamCorrectable == PosSets(HAM_T)
BchCorrectable == PosSets(BCH_T)
HamErrors == PosSets(HAM_T + MaxExcess)
BchErrors == PosSets(BCH_T + MaxExcess)
Correctable(fam) == IF fam = "hamming" THEN HamCorrectable ELSE BchCorrectable
Errors(fam) == IF fam = "hamming" THEN HamErrors ELSE BchErrors

\* the messages of the over-capacity runs: zero, all ones, alternating
OverMsgs(fam) ==
    { List([i \in 1..KOf(fam) |-> 0]),
      List([i \in 1..KOf(fam) |-> 1]),
      List([i \in 1..KOf(fam) |-> i % 2]) }

BlockEncode ==
    /\ bpc = "start"
    /\ bword' = encode_block(bcode, bmsg).value
    /\ bpc' = "encoded"
    /\ UNCHANGED <<bcode, bmsg, berr, bout>>
    /\ UNCHANGED <<gvars, svars, tvars, xvars>>

\* the channel flips the positions pos, and the receiver decodes with the
\* T = 2 table
BlockDecode(pos) ==
    /\ bpc = "encoded"
    /\ berr' = pos
    /\ bword' = VecXor(bword, UnitVec(N, pos))
    /\ LET res == decode_block(bcode, bword', SyndTable2)
       IN  /\ bout' = res.value
           /\ bpc' = IF res.raised THEN "raised" ELSE "decoded"
    /\ UNCHANGED <<bcode, bmsg>>
    /\ UNCHANGED <<gvars, svars, tvars, xvars>>

\* every message, every error within the correction capacity
BlockInit ==
    /\ bpc = "start"
    /\ bcode \in Families
    /\ bmsg \in BitVectors(KOf(bcode))
    /\ bword = None
    /\ berr = None
    /\ bout = None
    /\ GIdle /\ SIdle /\ TIdle /\ XIdle

BlockNext ==
    \/ BlockEncode
    \/ \E pos \in Correctable(bcode) : BlockDecode(pos)

SpecBlock == BlockInit /\ [][BlockNext]_vars

\* light messages, errors up to MaxExcess past the correction capacity
OverInit ==
    /\ bpc = "start"
    /\ bcode \in Families
    /\ bmsg \in OverMsgs(bcode)
    /\ bword = None
    /\ berr = None
    /\ bout = None
    /\ GIdle /\ SIdle /\ TIdle /\ XIdle

OverNext ==
    \/ BlockEncode
    \/ \E pos \in Errors(bcode) : BlockDecode(pos)

SpecOver == OverInit /\ [][OverNext]_vars

----------------------------------------------------------------------------
(* The numpy tree's block Hamming code:                                    *)
(* mceliece/code/hamming_mceliece/hamming_code.py, class BlockHammingCode. *)
(* A numpy vector is a sequence, a matrix the sequence of its rows.        *)

\* block_params = (15, 11, 3)
n_block == 15
k_block == 11

\* BinaryField.matrix_multiply: result[i][j] = np.sum(a[i] * b[:, j]) % 2, or
\* ValueError when a.shape[1] != b.shape[0]
matrix_multiply(a, b) ==
    IF Len(a[1]) # Len(b) THEN Raise(ValueError)
    ELSE Return(List([i \in 1..Len(a) |->
             List([j \in 1..Len(b[1]) |->
                 Cardinality({t \in 1..Len(b) : a[i][t] * b[t][j] = 1}) % 2])]))

\* _get_parity_check_matrix: the 4 x 15 array
get_parity_check_matrix ==
    << <<1, 0, 0, 0, 1, 0, 0, 1, 1, 0, 1, 0, 1, 1, 1>>,
       <<0, 1, 0, 0, 1, 1, 0, 1, 0, 1, 1, 1, 1, 0, 0>>,
       <<0, 0, 1, 0, 0, 1, 1, 1, 0, 0, 1, 1, 0, 1, 0>>,
       <<0, 0, 0, 1, 0, 0, 1, 0, 1, 0, 0, 1, 0, 0, 1>> >>

\* the array P of _generate_hamming_generator
generator_P ==
    << <<1, 0, 0, 0>>, <<1, 1, 0, 0>>, <<0, 1, 1, 0>>, <<1, 1, 1, 0>>,
       <<1, 0, 1, 0>>, <<0, 1, 0, 1>>, <<1, 1, 0, 1>>, <<1, 0, 1, 1>>,
       <<0, 1, 1, 1>>, <<1, 1, 1, 1>>, <<0, 0, 1, 0>> >>

\* _generate_hamming_generator: G_block[i, i] = 1, G_block[:, k_block:] = P
\* (H_block, H_1 and H_2 are computed and not used)
G_block ==
    List([i \in 1..k_block |->
        List([j \in 1..n_block |->
            IF j <= k_block THEN (IF i = j THEN 1 ELSE 0) ELSE generator_P[i][j - k_block]])])

\* BlockHammingCode.encode of a code with L blocks
BlockHammingCode_encode(L, message) ==
    IF Len(message) # k_block * L THEN Raise(ValueError)
    ELSE LET block_code(i) ==
                 matrix_multiply(<<SubSeq(message, i * k_block + 1, (i + 1) * k_block)>>,
                                 G_block).value[1]
         IN  Return(List([pos \in 1..(n_block * L) |->
                 block_code((pos - 1) \div n_block)[((pos - 1) % n_block) + 1]]))

\* s = H . block^T, flattened
block_syndrome(block) ==
    LET column == List([i \in 1..Len(block) |-> <<block[i]>>])
        prod == matrix_multiply(get_parity_check_matrix, column).value
    IN  List([r \in 1..Len(prod) |-> prod[r][1]])

\* _find_error_position: the first column j of H equal to the syndrome, as
\* <<j>>, or None, as <<>>
find_error_position(syndrome) ==
    LET H == get_parity_check_matrix
        hits == {j \in 0..(Len(H[1]) - 1) : \A r \in 1..Len(H) : H[r][j + 1] = syndrome[r]}
    IN  IF hits = {} THEN <<>> ELSE <<CHOOSE j \in hits : \A q \in hits : j <= q>>

\* the syndromes decode computes, block by block
decode_syndromes(L, received) ==
    List([i \in 1..L |-> block_syndrome(SubSeq(received, (i - 1) * n_block + 1, i * n_block))])

\* BlockHammingCode.decode of a code with L blocks: corrected = received.copy(),
\* then one bit flipped in each block whose syndrome is a column of H
BlockHammingCode_decode(L, received) ==
    IF Len(received) # n_block * L THEN Raise(ValueError)
    ELSE LET syn == decode_syndromes(L, received)
         IN  Return(List([pos \in 1..(n_block * L) |->
                 LET i == (pos - 1) \div n_block
                     s == syn[i + 1]
                     error_pos == find_error_position(s)
                 IN  IF (\E r \in 1..Len(s) : s[r] # 0) /\ error_pos # <<>>
                        /\ pos - 1 = i * n_block + error_pos[1]
                     THEN Xor(received[pos], 1)
                     ELSE received[pos]]))

\* messages of L equal blocks, every 11-bit block
TreeMessages(L) ==
    {List([i \in 1..(k_block * L) |-> m[((i - 1) % k_block) + 1]]) : m \in BitVectors(k_block)}

TreeInit ==
    /\ npc = "start"
    /\ nL \in 1..MaxL
    /\ nmsg \in TreeMessages(nL)
    /\ ncode = None
    /\ nsyn = None
    /\ ndec = None
    /\ BIdle /\ GIdle /\ SIdle /\ TIdle /\ WIdle /\ MIdle /\ LIdle

\* code.encode(message)
TreeEncode ==
    /\ npc = "start"
    /\ ncode' = BlockHammingCode_encode(nL, nmsg).value
    /\ npc' = "encoded"
    /\ UNCHANGED <<nL, nmsg, nsyn, ndec>>
    /\ UNCHANGED <<bvars, gvars, svars, tvars, wvars, mvars, lvars>>

\* code.decode(codeword)
TreeDecode ==
    /\ npc = "encoded"
    /\ nsyn' = decode_syndromes(nL, ncode)
    /\ ndec' = BlockHammingCode_decode(nL, ncode).value
    /\ npc' = "decoded"
    /\ UNCHANGED <<nL, nmsg, ncode>>
    /\ UNCHANGED <<bvars, gvars, svars, tvars, wvars, mvars, lvars>>

TreeNext == TreeEncode \/ TreeDecode

SpecTree == TreeInit /\ [][TreeNext]_vars

----------------------------------------------------------------------------
(* The LRU page replacement simulator: lru_page_replacement.py.            *)
(* A frame is the pair <<page_num, last_access_time>>; the list of frames  *)
(* is indexed from 1, the indices the functions return are Python's.       *)

PHYS_PAGES == 3
TOTAL_PAGES == 10
ACCESS_SEQ_LENGTH == 20

\* pages and accesses the runs draw
MaxPages == 4
MaxSteps == 6

\* the index of the first frame holding page_num, -1 when there is none
RECURSIVE is_page_in_memory_from(_, _, _)
is_page_in_memory_from(frs, page_num, i) ==
    IF i >= PHYS_PAGES THEN -1
    ELSE IF frs[i + 1][1] = page_num THEN i
    ELSE is_page_in_memory_from(frs, page_num, i + 1)

is_page_in_memory_never(frs, page_num) == -1

is_page_in_memory(frs, page_num) == is_page_in_memory_from(frs, page_num, 0)

\* the loop of find_lru_page: a strictly smaller time moves the index
RECURSIVE find_lru_page_from(_, _, _, _)
find_lru_page_from(frs, i, lru_index, min_time) ==
    IF i >= PHYS_PAGES THEN lru_index
    ELSE IF frs[i + 1][2] < min_time
         THEN find_lru_page_from(frs, i + 1, i, frs[i + 1][2])
         ELSE find_lru_page_from(frs, i + 1, lru_index, min_time)

\* the index of a frame whose time is the largest
find_lru_page_newest(frs) ==
    CHOOSE i \in 0..(PHYS_PAGES - 1) : \A j \in 0..(PHYS_PAGES - 1) : frs[j + 1][2] <= frs[i + 1][2]

find_lru_page(frs) == find_lru_page_from(frs, 1, 0, frs[1][2])

\* frames[index] = value
StoreFrame(frs, index, value) ==
    List([i \in 1..Len(frs) |-> IF i = index + 1 THEN value ELSE frs[i]])

\* the pages random.randint(0, TOTAL_PAGES - 1) can give, the first MaxPages
PagesDrawn == {q \in 0..(TOTAL_PAGES - 1) : q < MaxPages}

\* frames = [(-1, -1)] * PHYS_PAGES, clock = hit_count = miss_count = 0
LruInit ==
    /\ frames = List([i \in 1..PHYS_PAGES |-> <<-1, -1>>])
    /\ clock = 0
    /\ hit_count = 0
    /\ miss_count = 0
    /\ access_sequence = <<>>
    /\ BIdle /\ GIdle /\ SIdle /\ TIdle /\ WIdle /\ MIdle /\ NIdle

\* one turn of the loop over range(ACCESS_SEQ_LENGTH), page_num being
\* access_sequence[step]
LruAccess(page_num) ==
    /\ clock < ACCESS_SEQ_LENGTH
    /\ clock < MaxSteps
    /\ access_sequence' = Append(access_sequence, page_num)
    /\ LET frame_index == is_page_in_memory(frames, page_num)
       IN  IF frame_index # -1
           THEN /\ hit_count' = hit_count + 1
                /\ frames' = StoreFrame(frames, frame_index, <<page_num, clock>>)
                /\ UNCHANGED miss_count
           ELSE /\ miss_count' = miss_count + 1
                /\ frames' = StoreFrame(frames, find_lru_page(frames), <<page_num, clock>>)
                /\ UNCHANGED hit_count
    /\ clock' = clock + 1
    /\ UNCHANGED <<bvars, gvars, svars, tvars, wvars, mvars, nvars>>

LruNext == \E page_num \in PagesDrawn : LruAccess(page_num)

SpecLRU == LruInit /\ [][LruNext]_vars

----------------------------------------------------------------------------
(* Product runs: mat_mul(A, B), then mat_vec_mul(A[0], B).                 *)

\* the most entries a matrix of a product run has
MaxCells == 4

\* every bit matrix of at least one row and one column and at most cells entries
SmallMatrices(cells) ==
    UNION {[1..rows -> [1..cols -> {0, 1}]] :
              <<rows, cols>> \in {rc \in (1..cells) \X (1..cells) : rc[1] * rc[2] <= cells}}

MulInit ==
    /\ mpc = "start"
    /\ mA \in SmallMatrices(MaxCells)
    /\ mB \in SmallMatrices(MaxCells)
    /\ mprod = None
    /\ mvec = None
    /\ BIdle /\ GIdle /\ SIdle /\ TIdle /\ WIdle /\ NIdle /\ LIdle

\* mat_mul(A, B)
MulCall ==
    /\ mpc = "start"
    /\ LET res == mat_mul(mA, mB)
       IN  /\ mprod' = res.value
           /\ mpc' = IF res.raised THEN "mul raised" ELSE "multiplied"
    /\ UNCHANGED <<mA, mB, mvec>>
    /\ UNCHANGED <<bvars, gvars, svars, tvars, wvars, nvars, lvars>>

\* mat_vec_mul(A[0], B)
VecCall ==
    /\ mpc \in {"multiplied", "mul raised"}
    /\ LET res == mat_vec_mul(mA[1], mB)
       IN  /\ mvec' = res.value
           /\ mpc' = IF res.raised THEN "vec raised" ELSE "applied"
    /\ UNCHANGED <<mA, mB, mprod>>
    /\ UNCHANGED <<bvars, gvars, svars, tvars, wvars, nvars, lvars>>

MulNext == MulCall \/ VecCall

SpecMul == MulInit /\ [][MulNext]_vars

----------------------------------------------------------------------------
(* Word runs: a decoder is handed any 15-bit word.                         *)

\* the decoder's local syn: s1 | (s2 << 1) | (s4 << 2) | (s8 << 3), or
\* compute_syndrome_vec(r)
syndrome(fam, r) == IF fam = "hamming" THEN ham_syndrome(r) ELSE compute_syndrome_vec(r)

\* the table syndrome_table(t) returns, for the t a scheme can be built with
TableOf(t) == IF t >= 2 THEN SyndTable2 ELSE SyndTable1

WordInit ==
    /\ wpc = "start"
    /\ wcode \in Families
    /\ wword \in BitVectors(N)
    /\ wt = 0
    /\ wsyn = None
    /\ wout = None
    /\ BIdle /\ GIdle /\ SIdle /\ TIdle /\ MIdle /\ NIdle /\ LIdle

\* syndrome_decode_block(r), or decode_block(r, syndrome_table(t))
WordDecode(t) ==
    /\ wpc = "start"
    /\ wt' = t
    /\ wsyn' = syndrome(wcode, wword)
    /\ LET res == decode_block(wcode, wword, TableOf(t))
       IN  /\ wout' = res.value
           /\ wpc' = IF res.raised THEN "raised" ELSE "decoded"
    /\ UNCHANGED <<wcode, wword>>
    /\ UNCHANGED <<bvars, gvars, svars, tvars, mvars, nvars, lvars>>

WordNext == \E t \in 1..TOf(wcode) : WordDecode(t)

SpecWord == WordInit /\ [][WordNext]_vars

----------------------------------------------------------------------------
(* gf2 runs: invert a matrix and multiply it back; invert a permutation    *)
(* and apply it forth and back.                                            *)

\* every n x n bit matrix
SquareMatrices(n) == [1..n -> [1..n -> {0, 1}]]

\* every permutation of [0, n), as the list random_permutation may return
AllPermutations(n) == {p \in [1..n -> 0..(n - 1)] : \A i, j \in 1..n : p[i] = p[j] => i = j}

MatInit ==
    /\ gpc = "start"
    /\ \E n \in 1..MaxDim : gin \in SquareMatrices(n)
    /\ gheld = gin
    /\ ginv = None
    /\ gprod = None
    /\ gvec = None

PermInit ==
    /\ gpc = "perm"
    /\ \E n \in 1..MaxPermLen : gin \in AllPermutations(n) /\ gvec \in {<<v>> : v \in BitVectors(n)}
    /\ gheld = None
    /\ ginv = None
    /\ gprod = None

GF2Init == BIdle /\ SIdle /\ TIdle /\ XIdle /\ (MatInit \/ PermInit)

\* S_inv = mat_inv(S)
MatInvCall ==
    /\ gpc = "start"
    /\ LET res == mat_inv(gheld)
       IN  /\ ginv' = res.value
           /\ gpc' = IF res.raised THEN "raised" ELSE "inverted"
    /\ gheld' = mat_inv_leaves(gheld)
    /\ UNCHANGED <<gin, gprod, gvec>>
    /\ UNCHANGED <<bvars, svars, tvars, xvars>>

\* mat_mul(S, S_inv) and mat_mul(S_inv, S)
MatMulCall ==
    /\ gpc = "inverted"
    /\ gprod' = <<mat_mul(gheld, ginv).value, mat_mul(ginv, gheld).value>>
    /\ gpc' = "multiplied"
    /\ UNCHANGED <<gin, gheld, ginv, gvec>>
    /\ UNCHANGED <<bvars, svars, tvars, xvars>>

\* keygen's P_inv, then v -> apply_permutation(v, P) -> apply_permutation(., P_inv)
PermCall ==
    /\ gpc = "perm"
    /\ ginv' = inverse_permutation(gin)
    /\ LET v1 == apply_permutation(gvec[1], gin)
       IN  gvec' = <<gvec[1], v1, apply_permutation(v1, ginv')>>
    /\ gpc' = "applied"
    /\ UNCHANGED <<gin, gheld, gprod>>
    /\ UNCHANGED <<bvars, svars, tvars, xvars>>

GF2Next == MatInvCall \/ MatMulCall \/ PermCall

SpecGF2 == GF2Init /\ [][GF2Next]_vars

----------------------------------------------------------------------------
(* One call syndrome_table(t), a step per loop turn.                       *)

TableArgs == 0..BCH_T

TableInit ==
    /\ tpc = "start"
    /\ tt \in TableArgs
    /\ ti = 0 /\ tj = 0
    /\ ttable = Unbound
    /\ BIdle /\ GIdle /\ SIdle /\ XIdle

\* table = {0: [0] * N}
TableStart ==
    /\ tpc = "start"
    /\ ttable' = << <<0, UnitVec(N, {})>> >>
    /\ ti' = 0
    /\ tpc' = "singles"
    /\ UNCHANGED <<tt, tj>>
    /\ UNCHANGED <<bvars, gvars, svars, xvars>>

\* one turn of the first loop
TableSingle ==
    /\ tpc = "singles" /\ ti < N
    /\ LET e == single_error(ti)
       IN  ttable' = setdefault(ttable, compute_syndrome_vec(e), e)
    /\ ti' = ti + 1
    /\ UNCHANGED <<tpc, tt, tj>>
    /\ UNCHANGED <<bvars, gvars, svars, xvars>>

\* the first loop is over: if t >= 2 the pairs follow, else the table returns
TableSinglesDone ==
    /\ tpc = "singles" /\ ti >= N
    /\ tpc' = IF tt >= 2 THEN "pairs" ELSE "returned"
    /\ ti' = IF tt >= 2 THEN 0 ELSE ti
    /\ tj' = IF tt >= 2 THEN 1 ELSE tj
    /\ UNCHANGED <<tt, ttable>>
    /\ UNCHANGED <<bvars, gvars, svars, xvars>>

\* one turn of the inner loop, j in range(i + 1, N)
TablePair ==
    /\ tpc = "pairs" /\ ti < N /\ tj < N
    /\ LET e == pair_error(ti, tj)
       IN  ttable' = setdefault(ttable, compute_syndrome_vec(e), e)
    /\ tj' = tj + 1
    /\ UNCHANGED <<tpc, tt, ti>>
    /\ UNCHANGED <<bvars, gvars, svars, xvars>>

\* the inner loop is over: the next i, or the table returns
TableRowDone ==
    /\ tpc = "pairs" /\ ti < N /\ tj >= N
    /\ ti' = ti + 1
    /\ tj' = ti + 2
    /\ tpc' = IF ti + 1 >= N THEN "returned" ELSE "pairs"
    /\ UNCHANGED <<tt, ttable>>
    /\ UNCHANGED <<bvars, gvars, svars, xvars>>

TableNext ==
    \/ TableStart
    \/ TableSingle
    \/ TableSinglesDone
    \/ TablePair
    \/ TableRowDone

SpecTable == TableInit /\ [][TableNext]_vars

----------------------------------------------------------------------------
(* The scheme classes HammingMcEliece and BCHMcEliece.                     *)

base_generator(fam) == IF fam = "hamming" THEN ham_base_generator ELSE bch_base_generator

\* block_generator(L): G[blk * K + r][blk * N + c] = base[r][c], zero elsewhere
block_generator(fam, l) ==
    LET base == base_generator(fam)
        kk == KOf(fam)
    IN  List([row \in 1..(kk * l) |->
            List([col \in 1..(N * l) |->
                IF (row - 1) \div kk = (col - 1) \div N
                THEN base[((row - 1) % kk) + 1][((col - 1) % N) + 1]
                ELSE 0])])

\* __init__(L, errors_per_block, rng): the fields of the new object, or ValueError
new_scheme(fam, l, errors_per_block, rng) ==
    IF errors_per_block > TOf(fam) THEN Raise(ValueError)
    ELSE Return([family |-> fam,
                 rng |-> rng,
                 L |-> l,
                 errors_per_block |-> errors_per_block,
                 n |-> N * l,
                 k |-> KOf(fam) * l,
                 G |-> block_generator(fam, l),
                 synd_table |-> IF fam = "bch" THEN syndrome_table(errors_per_block)
                                ELSE None])

\* as sample_accepted, with every sample returned untested
sample_accepted_always(mat) == TRUE

\* random_invertible_matrix: whether the try block returns the sample mat
sample_accepted(mat) == ~mat_inv(mat).raised

\* keygen, given the sample S that random_invertible_matrix returned and the
\* list P that random_permutation returned
keygen(sch, Smat, P) ==
    LET inv == mat_inv(Smat)
    IN  IF inv.raised THEN inv
        ELSE LET S_inv == inv.value
                 P_inv == inverse_permutation(P)
                 G_pub == apply_permutation_matrix(mat_mul(Smat, sch.G).value, P)
                 pk == [G_pub |-> G_pub, n |-> sch.n, k |-> sch.k, L |-> sch.L,
                        errors_per_block |-> sch.errors_per_block, P |-> P]
                 sk == IF sch.family = "bch"
                       THEN [S_inv |-> S_inv, P_inv |-> P_inv,
                             synd_table |-> sch.synd_table, L |-> sch.L,
                             errors_per_block |-> sch.errors_per_block]
                       ELSE [S_inv |-> S_inv, P_inv |-> P_inv, L |-> sch.L,
                             errors_per_block |-> sch.errors_per_block]
             IN  Return(<<pk, sk>>)

\* as prefix_len, for the slice positions[:stop + 1]
prefix_len_inclusive(len, stop) == IF stop + 1 < len THEN stop + 1 ELSE len

\* len(positions[:stop])
prefix_len(len, stop) ==
    IF stop >= 0 THEN (IF stop < len THEN stop ELSE len)
    ELSE (IF len + stop > 0 THEN len + stop ELSE 0)

\* _sample_error_private, given for each block the order shuffles[blk] that
\* rng.shuffle left the 15 offsets of the block in
sample_error_private(sch, shuffles) ==
    List([pos \in 1..sch.n |->
        LET blk == (pos - 1) \div N
            off == (pos - 1) % N
            picked == {shuffles[blk + 1][t] : t \in 1..prefix_len(N, sch.errors_per_block)}
        IN  IF off \in picked THEN 1 ELSE 0])

\* e_public = apply_permutation(e_private, pub.P)
error_public(e, pk) == apply_permutation(e, pk.P)

\* encrypt, given the error vector the sampler returned
encrypt(m, pk, e) ==
    IF Len(m) # pk.k THEN Raise(ValueError)
    ELSE LET u == mat_vec_mul(m, pk.G_pub).value
             e_pub == error_public(e, pk)
         IN  Return(List([i \in 1..pk.n |-> Xor(u[i], e_pub[i])]))

\* as depermute, with the ciphertext taken as it is
depermute_skipped(c, sk) == c

\* c_perm = apply_permutation(c_bits, priv.P_inv)
depermute(c, sk) == apply_permutation(c, sk.P_inv)

RECURSIVE decrypt_loop_first_failure(_, _, _, _, _, _)
\* as decrypt_loop, leaving the loop at the first block that fails, with the
\* blocks not decoded taken as they are
decrypt_loop_first_failure(fam, c_perm, pk, sk, blk, acc) ==
    IF blk >= pk.L THEN Return(acc)
    ELSE LET block == SubSeq(c_perm, blk * N + 1, (blk + 1) * N)
             res == decode_block(fam, block, IF fam = "bch" THEN sk.synd_table ELSE None)
             rest == List([i \in 1..(KOf(fam) * (pk.L - blk - 1)) |->
                             c_perm[(blk + 1) * N + ((i - 1) \div KOf(fam)) * N
                                    + ((i - 1) % KOf(fam)) + 1]])
         IN  IF res.raised THEN res
             ELSE IF ~res.value[2]
                  THEN Return(<<acc[1] \o res.value[1] \o rest, FALSE>>)
                  ELSE decrypt_loop_first_failure(fam, c_perm, pk, sk, blk + 1,
                               <<acc[1] \o res.value[1], acc[2] /\ res.value[2]>>)

RECURSIVE decrypt_loop(_, _, _, _, _, _)
\* for blk in range(pub.L): decode one block, extend decoded, and success
decrypt_loop(fam, c_perm, pk, sk, blk, acc) ==
    IF blk >= pk.L THEN Return(acc)
    ELSE LET block == SubSeq(c_perm, blk * N + 1, (blk + 1) * N)
             res == decode_block(fam, block, IF fam = "bch" THEN sk.synd_table ELSE None)
         IN  IF res.raised THEN res
             ELSE decrypt_loop(fam, c_perm, pk, sk, blk + 1,
                               <<acc[1] \o res.value[1], acc[2] /\ res.value[2]>>)

\* as decrypt, without the length check: a short word fails in
\* apply_permutation, a long one is read up to len(P_inv)
decrypt_length_unchecked(fam, c, pk, sk) ==
    IF Len(c) < pk.n THEN Raise("IndexError")
    ELSE LET c_perm == depermute(c, sk)
             acc == decrypt_loop(fam, c_perm, pk, sk, 0, <<<<>>, TRUE>>)
         IN  IF acc.raised THEN acc
             ELSE Return(<<mat_vec_mul(acc.value[1], sk.S_inv).value, acc.value[2]>>)

decrypt(fam, c, pk, sk) ==
    IF Len(c) # pk.n THEN Raise(ValueError)
    ELSE LET c_perm == depermute(c, sk)
             acc == decrypt_loop(fam, c_perm, pk, sk, 0, <<<<>>, TRUE>>)
         IN  IF acc.raised THEN acc
             ELSE Return(<<mat_vec_mul(acc.value[1], sk.S_inv).value, acc.value[2]>>)

\* the generators: the module random, shared by the whole process, and a
\* random.Random(seed) object handed to the constructor as rng
RandomModule == "random"
InjectedRng == "random.Random(seed)"

\* what random_invertible_matrix draws per sample, and what random_permutation
\* and _sample_error_private draw: <<the value drawn, the generator>>
random_invertible_matrix_draws == {<<"mat", RandomModule>>}
random_permutation_draws == {<<"perm", RandomModule>>}
sample_error_private_draws(sch) == {<<"positions", sch.rng>>}

\* the scheme object after keygen: keygen assigns no attribute, and mat_inv,
\* mat_mul and apply_permutation_matrix build new lists
keygen_leaves(sch) == sch

\* the scheme object and encrypt's arguments after the call: u, e_private,
\* e_public and the result are new lists
encrypt_leaves(sch, m, pk) == [self |-> sch, m_bits |-> m, pub |-> pk]

\* as decrypt_leaves, with the de-permuted word written back into c_bits
decrypt_leaves_in_place(sch, c, pk, sk) ==
    [self |-> sch,
     c_bits |-> IF Len(c) = pk.n THEN apply_permutation(c, sk.P_inv) ELSE c,
     pub |-> pk, priv |-> sk]

\* the scheme object and decrypt's arguments after the call: c_perm is a new
\* list, block a slice of it, and the decoders copy the block they are given
decrypt_leaves(sch, c, pk, sk) == [self |-> sch, c_bits |-> c, pub |-> pk, priv |-> sk]

----------------------------------------------------------------------------
(* What the random number generator is taken to return.                    *)

\* samples of [[random.randint(0, 1) ...] ...]: four invertible matrices
\* (identity, upper triangle of ones, anti-diagonal, upper-left triangle of
\* ones) and three singular ones (zero, two equal rows, identity + cyclic shift)
SIdentity(k) == List([i \in 1..k |-> List([j \in 1..k |-> IF i = j THEN 1 ELSE 0])])
SUpper(k) == List([i \in 1..k |-> List([j \in 1..k |-> IF j >= i THEN 1 ELSE 0])])
SAnti(k) == List([i \in 1..k |-> List([j \in 1..k |-> IF i + j = k + 1 THEN 1 ELSE 0])])
SCorner(k) == List([i \in 1..k |-> List([j \in 1..k |-> IF i + j <= k + 1 THEN 1 ELSE 0])])
SZero(k) == List([i \in 1..k |-> List([j \in 1..k |-> 0])])
STwin(k) ==
    List([i \in 1..k |-> List([j \in 1..k |->
        IF (i = 2 /\ j = 1) \/ (i # 2 /\ j = i) THEN 1 ELSE 0])])
SCycle(k) ==
    List([i \in 1..k |-> List([j \in 1..k |-> IF j = i \/ j = (i % k) + 1 THEN 1 ELSE 0])])

MatrixSamples(k) ==
    {SIdentity(k), SUpper(k), SAnti(k), SCorner(k), SZero(k), STwin(k), SCycle(k)}

\* outcomes of random.shuffle(list(range(n))): identity, reversal, rotation
\* by one, and i -> 7 i mod n (a permutation, as n is 15 L with L < 7)
PermSamples(n) ==
    { List([i \in 1..n |-> i - 1]),
      List([i \in 1..n |-> n - i]),
      List([i \in 1..n |-> i % n]),
      List([i \in 1..n |-> (7 * (i - 1)) % n]) }

\* outcomes of rng.shuffle on the 15 offsets of a block: t -> a t + b mod 15
Affine(a, b) == List([t \in 1..N |-> (a * (t - 1) + b) % N])
ShuffleSamples == {Affine(1, 0), Affine(14, 14), Affine(7, 3)}

\* messages: zero, all ones, first bit, last bit, alternating
MessageSamples(k) ==
    { List([i \in 1..k |-> 0]),
      List([i \in 1..k |-> 1]),
      List([i \in 1..k |-> IF i = 1 THEN 1 ELSE 0]),
      List([i \in 1..k |-> IF i = k THEN 1 ELSE 0]),
      List([i \in 1..k |-> i % 2]) }

\* messages of a wrong length: one bit short, one bit long
BadMessages(k) ==
    { List([i \in 1..(k - 1) |-> 0]),
      List([i \in 1..(k + 1) |-> 1]) }

\* words of n bits that no encrypt call returned: zero, all ones, alternating,
\* three ones at the head, and ones at the multiples of 4
ReceivedWords(n) ==
    { List([i \in 1..n |-> 0]),
      List([i \in 1..n |-> 1]),
      List([i \in 1..n |-> i % 2]),
      List([i \in 1..n |-> IF i <= 3 THEN 1 ELSE 0]),
      List([i \in 1..n |-> IF i % 4 = 0 THEN 1 ELSE 0]) }

\* words of a wrong length: one bit short, one bit long
BadWords(n) ==
    { List([i \in 1..(n - 1) |-> i % 2]),
      List([i \in 1..(n + 1) |-> 0]) }

\* the values of errors_per_block handed to a constructor
EpbArgs(fam) == 0..(TOf(fam) + 1)

----------------------------------------------------------------------------
(* Scheme runs: construct, keygen, encrypt, decrypt.                       *)

Init ==
    /\ BIdle /\ GIdle /\ TIdle /\ XIdle
    /\ pc = "new"
    /\ SUnbound

\* HammingMcEliece(L, errors_per_block, rng) or BCHMcEliece(L, errors_per_block, rng)
Construct(fam, l, errors_per_block) ==
    /\ pc = "new"
    /\ LET res == new_scheme(fam, l, errors_per_block, InjectedRng)
       IN  /\ pc' = IF res.raised THEN "refused" ELSE "ready"
           /\ scheme' = IF res.raised THEN scheme ELSE res.value
           /\ exc' = IF res.raised THEN res.value ELSE None
    /\ draws' = {}
    /\ UNCHANGED <<rejected, S, pub, priv, m_bits, e_private, c_bits, dec>>
    /\ UNCHANGED <<bvars, gvars, tvars, xvars>>

\* keygen, one turn of random_invertible_matrix's loop: the sample mat is
\* singular, mat_inv raises ValueError, and the loop continues
KeygenRetry(mat) ==
    /\ pc \in {"ready", "sampling"}
    /\ ~sample_accepted(mat)
    /\ pc' = "sampling"
    /\ rejected' = mat
    /\ draws' = random_invertible_matrix_draws
    /\ UNCHANGED <<scheme, S, pub, priv, m_bits, e_private, c_bits, dec, exc>>
    /\ UNCHANGED <<bvars, gvars, tvars, xvars>>

\* keygen, the last turn of the loop and the rest of keygen: the sample mat
\* is returned as S (the loop's variable goes out of scope), P is drawn, and
\* the key pair is built
KeygenReturn(mat, P) ==
    /\ pc \in {"ready", "sampling"}
    /\ S' = mat
    /\ rejected' = Unbound
    /\ sample_accepted(mat)
    /\ LET res == keygen(scheme, mat, P)
       IN  /\ pc' = IF res.raised THEN "failed" ELSE "keyed"
           /\ pub' = IF res.raised THEN pub ELSE res.value[1]
           /\ priv' = IF res.raised THEN priv ELSE res.value[2]
           /\ exc' = IF res.raised THEN res.value ELSE None
    /\ draws' = random_invertible_matrix_draws \cup random_permutation_draws
    /\ scheme' = keygen_leaves(scheme)
    /\ UNCHANGED <<m_bits, e_private, c_bits, dec>>
    /\ UNCHANGED <<bvars, gvars, tvars, xvars>>

\* scheme.encrypt(m, pub): the length check comes first, and the sampler is
\* called (and the generator drawn from) only when it passes
Encrypt(m, shuffles) ==
    /\ pc = "keyed"
    /\ e_private' = IF Len(m) # pub.k THEN e_private
                    ELSE sample_error_private(scheme, shuffles)
    /\ LET res == encrypt(m, pub, e_private')
           after == encrypt_leaves(scheme, m, pub)
       IN  /\ pc' = IF res.raised THEN "encrypt raised" ELSE "encrypted"
           /\ c_bits' = IF res.raised THEN c_bits ELSE res.value
           /\ exc' = IF res.raised THEN res.value ELSE None
           /\ draws' = IF res.raised THEN {} ELSE sample_error_private_draws(scheme)
           /\ scheme' = after.self
           /\ m_bits' = after.m_bits
           /\ pub' = after.pub
    /\ UNCHANGED <<rejected, S, priv, dec>>
    /\ UNCHANGED <<bvars, gvars, tvars, xvars>>

\* scheme.decrypt(c, pub, priv) on the ciphertext encrypt returned
Decrypt ==
    /\ pc = "encrypted"
    /\ LET res == decrypt(scheme.family, c_bits, pub, priv)
           after == decrypt_leaves(scheme, c_bits, pub, priv)
       IN  /\ pc' = IF res.raised THEN "decrypt raised" ELSE "decrypted"
           /\ dec' = IF res.raised THEN dec ELSE res.value
           /\ exc' = IF res.raised THEN res.value ELSE None
           /\ scheme' = after.self
           /\ c_bits' = after.c_bits
           /\ pub' = after.pub
           /\ priv' = after.priv
    /\ draws' = {}
    /\ UNCHANGED <<rejected, S, m_bits, e_private>>
    /\ UNCHANGED <<bvars, gvars, tvars, xvars>>

\* scheme.decrypt(c, pub, priv) on a word c that comes from elsewhere
DecryptReceived(c) ==
    /\ pc = "keyed"
    /\ LET res == decrypt(scheme.family, c, pub, priv)
           after == decrypt_leaves(scheme, c, pub, priv)
       IN  /\ pc' = IF res.raised THEN "received raised" ELSE "received decrypted"
           /\ dec' = IF res.raised THEN dec ELSE res.value
           /\ exc' = IF res.raised THEN res.value ELSE None
           /\ scheme' = after.self
           /\ c_bits' = after.c_bits
           /\ pub' = after.pub
           /\ priv' = after.priv
    /\ draws' = {}
    /\ UNCHANGED <<rejected, S, m_bits, e_private>>
    /\ UNCHANGED <<bvars, gvars, tvars, xvars>>

Next ==
    \/ \E fam \in Families, l \in 1..MaxL :
          \E e \in EpbArgs(fam) : Construct(fam, l, e)
    \/ pc \in {"ready", "sampling"} /\ \E mat \in MatrixSamples(scheme.k) : KeygenRetry(mat)
    \/ pc \in {"ready", "sampling"} /\
          \E mat \in MatrixSamples(scheme.k), P \in PermSamples(scheme.n) : KeygenReturn(mat, P)
    \/ pc = "keyed" /\
          \E m \in MessageSamples(scheme.k), sh \in [1..scheme.L -> ShuffleSamples] :
             Encrypt(m, sh)
    \/ pc = "keyed" /\
          \E m \in BadMessages(scheme.k) : Encrypt(m, [blk \in 1..scheme.L |-> Affine(1, 0)])
    \/ Decrypt
    \/ pc = "keyed" /\
          \E c \in ReceivedWords(scheme.n) \cup BadWords(scheme.n) : DecryptReceived(c)

Spec == Init /\ [][Next]_vars

\* the random number generator produces an invertible sample in the end:
\* the loop of random_invertible_matrix is not run for ever when it can be left
KeygenLeaves == pc \in {"ready", "sampling"} /\ pc' = "keyed"

FairSpec == Spec /\ WF_pc(KeygenLeaves)

----------------------------------------------------------------------------
(* Properties of the block codecs.                                         *)

\* the number of positions where two words of the same length differ
Distance(a, b) == Cardinality({i \in 1..Len(a) : a[i] # b[i]})

IsBits(v, n) == Len(v) = n /\ \A i \in 1..n : v[i] \in {0, 1}

BchCodewords == {bch_encode_block(m).value : m \in BitVectors(BCH_K)}

\* C2: BCH(15,7,2) with the T = 2 table decodes every message through every
\* error pattern of weight 0, 1 or 2 to (m, true).
C2_BchCorrectsUpToTwo ==
    (bpc \in {"decoded", "raised"} /\ bcode = "bch" /\ Cardinality(berr) <= BCH_T)
        => /\ bpc = "decoded"
           /\ Distance(bword, bch_encode_block(bmsg).value) = Cardinality(berr)
           /\ bout = <<bmsg, TRUE>>

C2_Witness ==
    /\ bpc = "decoded" /\ bcode = "bch"
    /\ Cardinality(berr) = 2
    /\ weight(bmsg) = BCH_K
    /\ bout = <<bmsg, TRUE>>

\* C3: Hamming(15,11) decodes every message with any one bit flipped to
\* (m, true), and the syndrome integer is the 1-indexed flipped position.
C3_HammingCorrectsOne ==
    (bpc \in {"decoded", "raised"} /\ bcode = "hamming" /\ Cardinality(berr) = 1)
        => /\ bpc = "decoded"
           /\ \A i \in berr : ham_syndrome(bword) = i + 1
           /\ bout = <<bmsg, TRUE>>

C3_Witness ==
    /\ bpc = "decoded" /\ bcode = "hamming"
    /\ berr = {14}
    /\ weight(bmsg) = HAM_K
    /\ ham_syndrome(bword) = 15
    /\ bout = <<bmsg, TRUE>>

\* C4: Hamming decodes an unaltered codeword to (m, true): a word with
\* syndrome 0 is accepted with success = true.
C4_ZeroSyndromeAccepted ==
    (bpc \in {"decoded", "raised"} /\ bcode = "hamming" /\ berr = {})
        => /\ bpc = "decoded"
           /\ bout = <<bmsg, TRUE>>

\* C5 as stated: a block that differs from the transmitted codeword in more
\* than T positions is decoded without an exception to K bits and
\* success = false.
C5_OverCapacityFlagged ==
    (bpc \in {"decoded", "raised"} /\ Cardinality(berr) > TOf(bcode))
        => /\ bpc = "decoded"
           /\ IsBits(bout[1], KOf(bcode))
           /\ bout[2] = FALSE

\* C5 as amended: such a block is decoded without an exception to K bits and
\* a flag, and never to (m, true). The flag is true when the block lies within
\* distance T of another codeword (for Hamming: at distance 1 exactly), and
\* the bits are then that codeword's message. The flag is false when the BCH
\* syndrome is absent from the table (no codeword within distance 2; the bits
\* are r[0:7]) and when the Hamming syndrome is zero (the block is another
\* codeword; the bits are its message).
C5_OverCapacityOutcome ==
    (bpc \in {"decoded", "raised"} /\ Cardinality(berr) > TOf(bcode))
        => /\ bpc = "decoded"
           /\ IsBits(bout[1], KOf(bcode))
           /\ bout[2] \in BOOLEAN
           /\ bout[2] =>
                 /\ bout[1] # bmsg
                 /\ Distance(encode_block(bcode, bout[1]).value, bword) \in
                        (IF bcode = "bch" THEN 0..BCH_T ELSE 1..HAM_T)
           /\ (~bout[2] /\ bcode = "bch") =>
                 /\ \A c \in BchCodewords : Distance(c, bword) > BCH_T
                 /\ bout[1] = SubSeq(bword, 1, BCH_K)
           /\ (~bout[2] /\ bcode = "hamming") =>
                 /\ bout[1] # bmsg
                 /\ ham_encode_block(bout[1]).value = bword

C5_Witness ==
    /\ bpc = "decoded"
    /\ Cardinality(berr) = TOf(bcode) + 1
    /\ bout[2] = TRUE
    /\ bout[1] # bmsg

----------------------------------------------------------------------------
(* Properties of the GF(2) helpers.                                        *)

IdentityMatrix(n) == [i \in 1..n |-> [j \in 1..n |-> IF i = j THEN 1 ELSE 0]]

\* some non-empty set of rows of mat adds up to zero over GF(2)
RowsDependent(mat, maxrows) ==
    \E R \in SUBSET (1..Len(mat)) :
        /\ R # {} /\ Cardinality(R) <= maxrows
        /\ \A c \in 1..Len(mat) : Cardinality({r \in R : mat[r][c] = 1}) % 2 = 0

\* C6: whenever mat_inv succeeds on S, mat_mul(S, mat_inv(S)) and
\* mat_mul(mat_inv(S), S) are both the identity.
C6_InverseCorrect ==
    gpc = "multiplied"
        => /\ gprod[1] = IdentityMatrix(Len(gin))
           /\ gprod[2] = IdentityMatrix(Len(gin))

C6_Witness ==
    /\ gpc = "multiplied"
    /\ Len(gin) = MaxDim
    /\ gin[1][1] = 0
    /\ ginv # gin
    /\ gprod[1] = IdentityMatrix(MaxDim)

\* C7: mat_inv raises ValueError exactly on the matrices that are singular
\* over GF(2) (some rows add up to zero), returns a matrix exactly on the
\* invertible ones, and leaves the caller's matrix as it was either way.
C7_SingularDetected ==
    gpc \in {"inverted", "raised"}
        => /\ (gpc = "raised") <=> RowsDependent(gin, Len(gin))
           /\ gpc = "raised" => ginv = ValueError
           /\ gpc = "inverted" => Len(ginv) = Len(gin)
           /\ gheld = gin

C7_Witness ==
    /\ gpc = "raised"
    /\ Len(gin) = MaxDim
    /\ ~RowsDependent(gin, 2)
    /\ ginv = ValueError
    /\ gheld = gin

\* C10: the P_inv keygen computes from a permutation P satisfies
\* P_inv[P[i]] = i and P[P_inv[i]] = i, apply_permutation(v, P)[i] = v[P[i]],
\* and applying P and then P_inv gives v back.
C10_PermutationRoundTrip ==
    gpc = "applied"
        => /\ \A i \in 1..Len(gin) :
                 /\ ginv[gin[i] + 1] = i - 1
                 /\ gin[ginv[i] + 1] = i - 1
                 /\ gvec[2][i] = gvec[1][gin[i] + 1]
           /\ Len(gvec[2]) = Len(gin)
           /\ gvec[3] = gvec[1]

C10_Witness ==
    /\ gpc = "applied"
    /\ Len(gin) = MaxPermLen
    /\ ginv # gin
    /\ gvec[2] # gvec[1]
    /\ gvec[3] = gvec[1]

----------------------------------------------------------------------------
(* Properties of the schemes.                                              *)

\* entry (i, j) of the product A . B over GF(2), as a sum of products
ProductEntry(A, B, i, j) ==
    Cardinality({t \in 1..Len(B) : A[i][t] = 1 /\ B[t][j] = 1}) % 2

IsInverseOf(A, B) ==
    /\ Len(A) = Len(B)
    /\ \A i, j \in 1..Len(A) :
          /\ ProductEntry(A, B, i, j) = (IF i = j THEN 1 ELSE 0)
          /\ ProductEntry(B, A, i, j) = (IF i = j THEN 1 ELSE 0)

\* entry (t, c) of the block-diagonal matrix of l copies of base
BlockDiagonalEntry(base, l, t, c) ==
    LET kk == Len(base)
    IN  IF (t - 1) \div kk = (c - 1) \div N
        THEN base[((t - 1) % kk) + 1][((c - 1) % N) + 1]
        ELSE 0

\* entry (i, c) of Smat . G, G the block-diagonal matrix of l copies of base
SGEntry(Smat, base, l, i, c) ==
    Cardinality({t \in 1..Len(Smat) :
                    Smat[i][t] = 1 /\ BlockDiagonalEntry(base, l, t, c) = 1}) % 2

IsPermutationList(P, n) ==
    Len(P) = n /\ {P[i] : i \in 1..n} = 0..(n - 1)

\* a row of zeros, two equal rows, or all the rows adding up to zero
HasDependentRows(mat) ==
    LET k == Len(mat)
    IN  \/ \E r \in 1..k : weight(mat[r]) = 0
        \/ \E r1, r2 \in 1..k : r1 # r2 /\ mat[r1] = mat[r2]
        \/ \A j \in 1..k : Cardinality({r \in 1..k : mat[r][j] = 1}) % 2 = 0

ValidKeyPair(sch, Smat, pk, sk) ==
    /\ pk.n = N * sch.L /\ pk.k = KOf(sch.family) * sch.L /\ pk.L = sch.L
    /\ Len(pk.G_pub) = pk.k /\ \A i \in 1..pk.k : Len(pk.G_pub[i]) = pk.n
    /\ IsPermutationList(pk.P, pk.n)
    /\ IsPermutationList(sk.P_inv, pk.n)
    /\ \A i \in 1..pk.n : sk.P_inv[pk.P[i] + 1] = i - 1
    /\ IsInverseOf(Smat, sk.S_inv)

\* a step taken inside keygen either discards a singular sample and stays in
\* the loop, or returns a valid key pair built on an invertible sample
KeygenStepsRight ==
    pc \in {"ready", "sampling"} =>
        /\ pc' \in {"sampling", "keyed"}
        /\ pc' = "sampling" =>
              /\ rejected' \in MatrixSamples(scheme.k)
              /\ HasDependentRows(rejected')
              /\ UNCHANGED <<scheme, S, pub, priv>>
        /\ pc' = "keyed" =>
              /\ ~HasDependentRows(S')
              /\ ValidKeyPair(scheme, S', pub', priv')

\* C1: with errors_per_block in 1..T, decrypt(encrypt(m, pub), pub, priv)
\* returns (m, True) for every key pair of keygen, every message of length k
\* and every error vector the sampler draws, in both schemes.
C1_RoundTrip ==
    (pc \in {"decrypted", "decrypt raised"} /\ scheme.errors_per_block >= 1)
        => (pc = "decrypted" /\ dec = <<m_bits, TRUE>>)

C1_Witness ==
    /\ pc = "decrypted"
    /\ scheme.family = "bch" /\ scheme.errors_per_block = BCH_T /\ scheme.L >= 2
    /\ S = SCorner(scheme.k)
    /\ pub.P[1] >= N
    /\ weight(e_private) = BCH_T * scheme.L
    /\ weight(m_bits) >= 2
    /\ dec = <<m_bits, TRUE>>

\* C8: in random_invertible_matrix a singular sample is discarded and the
\* loop goes on, without an error; the sample returned is invertible and
\* keygen then returns a valid key pair; and keygen returns in the end if the
\* generator produces an invertible sample in the end.
C8_KeygenRetry ==
    /\ [][KeygenStepsRight]_vars
    /\ (pc = "sampling") ~> (pc = "keyed")

C8_Witness ==
    /\ pc = "sampling"
    /\ scheme.L >= 2
    /\ rejected = SCycle(scheme.k)
    /\ S = Unbound /\ pub = NoObject /\ priv = NoObject

\* C9: for every key pair of keygen, G_pub is k x n and G_pub[i][j] is entry
\* (i, P[j]) of S . G, where S is the inverse of priv.S_inv and G is block
\* diagonal with L copies of the base generator.
C9_PublicKeyComposition ==
    pc = "keyed" =>
        /\ Len(pub.G_pub) = KOf(scheme.family) * scheme.L
        /\ \A i \in 1..Len(pub.G_pub) : Len(pub.G_pub[i]) = N * scheme.L
        /\ IsInverseOf(S, priv.S_inv)
        /\ \A i \in 1..(KOf(scheme.family) * scheme.L), j \in 1..(N * scheme.L) :
              pub.G_pub[i][j] =
                  SGEntry(S, base_generator(scheme.family), scheme.L, i, pub.P[j] + 1)

C9_Witness ==
    /\ pc = "keyed"
    /\ scheme.family = "hamming" /\ scheme.L >= 2
    /\ S = SUpper(scheme.k)
    /\ pub.P[1] = 1
    /\ pub.G_pub # scheme.G
    /\ pub.G_pub[1][pub.n] = 1

----------------------------------------------------------------------------
(* Properties of the encoders and of the syndrome table.                   *)

\* the GF(2) sum over i of vec[i] . mat[i][j], term by term
DotColumn(vec, mat, j) ==
    Cardinality({i \in 1..Len(vec) : vec[i] = 1 /\ mat[i][j] = 1}) % 2

\* C11: for both codes, encode_block(m) is the row vector m times
\* base_generator(), whose rows are the encodings of the unit messages: the
\* codeword has 15 bits, each the GF(2) sum of the generator's column over the
\* ones of m.
C11_EncodeIsGeneratorProduct ==
    bpc = "encoded"
        => LET base == base_generator(bcode)
           IN  /\ IsBits(bword, N)
               /\ Len(base) = KOf(bcode)
               /\ \A i \in 1..KOf(bcode) : IsBits(base[i], N)
               /\ bword = mat_vec_mul(bmsg, base).value
               /\ \A j \in 1..N : bword[j] = DotColumn(bmsg, base, j)

C11_Witness ==
    /\ bpc = "encoded" /\ bcode = "bch"
    /\ weight(bmsg) = BCH_K
    /\ bword = mat_vec_mul(bmsg, bch_base_generator).value
    /\ bword # bch_base_generator[1]
    /\ weight(bword) >= 2 * BCH_T + 1

\* C12: syndrome_table(2) has a key for the syndrome of every error of
\* weight 1 and 2; every entry's vector has the entry's key as its syndrome
\* and no word with that syndrome is lighter; the table has at most
\* 1 + 15 + 105 entries, under distinct keys.
C12_TableComplete ==
    /\ tpc \in {"singles", "pairs", "returned"}
          => /\ \A x \in 1..Len(ttable) :
                   /\ IsBits(ttable[x][2], N)
                   /\ compute_syndrome_vec(ttable[x][2]) = ttable[x][1]
             /\ \A x, y \in 1..Len(ttable) : ttable[x][1] = ttable[y][1] => x = y
             /\ Len(ttable) <= 1 + N + (N * (N - 1)) \div 2
    /\ tpc = "returned"
          => /\ ttable = syndrome_table(tt)
             /\ \A pos \in PosSets(IF tt >= 2 THEN 2 ELSE 1) :
                   HasKey(ttable, compute_syndrome_vec(UnitVec(N, pos)))
             /\ \A x \in 1..Len(ttable) : \A c \in BchCodewords :
                   weight(VecXor(ttable[x][2], c)) >= weight(ttable[x][2])

C12_Witness ==
    /\ tpc = "returned" /\ tt = 2
    /\ Len(ttable) = 1 + N + (N * (N - 1)) \div 2
    /\ ttable = SyndTable2
    /\ HasKey(ttable, compute_syndrome_vec(UnitVec(N, {0, N - 1})))
    /\ Lookup(ttable, compute_syndrome_vec(UnitVec(N, {0, N - 1}))) = UnitVec(N, {0, N - 1})

\* the message, the flipped positions and the words of the BCH scenario
ScenarioMsg == <<1, 0, 0, 0, 0, 0, 0>>
ScenarioFlips == {0, 1}
ScenarioInState == bcode = "bch" /\ bmsg = ScenarioMsg

\* C18 as stated: [1,0,0,0,0,0,0] encodes to [1,0,0,0,1,1,1,0,1,0,0,0,0,0,0],
\* and [0,1,0,0,1,1,1,0,1,0,0,0,0,0,0] decodes with the T = 2 table to (m, true).
C18_ScenarioAsStated ==
    /\ (ScenarioInState /\ bpc = "encoded")
          => bword = <<1, 0, 0, 0, 1, 1, 1, 0, 1, 0, 0, 0, 0, 0, 0>>
    /\ (ScenarioInState /\ bpc \in {"decoded", "raised"} /\ berr = ScenarioFlips)
          => /\ bword = <<0, 1, 0, 0, 1, 1, 1, 0, 1, 0, 0, 0, 0, 0, 0>>
             /\ bout = <<ScenarioMsg, TRUE>>

\* C18: [1,0,0,0,0,0,0] encodes to the coefficients of
\* g(x) = 1 + x^4 + x^6 + x^7 + x^8, [1,0,0,0,1,0,1,1,1,0,0,0,0,0,0]; with
\* positions 0 and 1 flipped the word is [0,1,0,0,1,0,1,1,1,0,0,0,0,0,0] and
\* the decoder with the T = 2 table returns (m, true).
C18_Scenario ==
    /\ (ScenarioInState /\ bpc = "encoded")
          => /\ bword = <<1, 0, 0, 0, 1, 0, 1, 1, 1, 0, 0, 0, 0, 0, 0>>
             /\ bword = poly_to_bits(G_POLY, N)
    /\ (ScenarioInState /\ bpc \in {"decoded", "raised"} /\ berr = ScenarioFlips)
          => /\ bpc = "decoded"
             /\ bword = <<0, 1, 0, 0, 1, 0, 1, 1, 1, 0, 0, 0, 0, 0, 0>>
             /\ bout = <<ScenarioMsg, TRUE>>

C18_Witness ==
    /\ ScenarioInState /\ bpc = "decoded" /\ berr = ScenarioFlips
    /\ bword[1] = 0 /\ bword[2] = 1 /\ bword[8] = 1
    /\ bout[2]

----------------------------------------------------------------------------
(* Properties of the scheme's parameters, inputs and generators.           *)

\* the states in which a scheme object exists
Constructed == pc \notin {"new", "refused"}

\* the states in which keygen has returned a key pair
Keyed ==
    pc \in {"keyed", "encrypted", "encrypt raised", "decrypted", "decrypt raised",
            "received decrypted", "received raised"}

\* C15: a constructor fails when errors_per_block lies outside [1, T], so
\* every scheme that exists has errors_per_block in 1..T.
C15_OutOfRangeRefused ==
    Constructed => scheme.errors_per_block \in 1..TOf(scheme.family)

\* C19: the BCH private key holds the full (15,7,2) table, with the double
\* errors, for every errors_per_block in 1..T.
C19_FullTableAlways ==
    (Keyed /\ scheme.family = "bch" /\ scheme.errors_per_block \in 1..BCH_T)
        => priv.synd_table = SyndTable2

\* C16: keygen and encrypt draw every random value (the samples of S, the
\* permutation P, the error positions) from the generator handed to the
\* constructor.
C16_DrawsFromInjected ==
    Constructed => \A d \in draws : d[2] = scheme.rng

\* the states decrypt has returned or raised into
AfterDecrypt ==
    pc \in {"decrypted", "decrypt raised", "received decrypted", "received raised"}

\* C13: decrypt is total on words of length n: whatever the n bits are, it
\* raises nothing and returns k message bits and a boolean.
C13_DecryptTotal ==
    (AfterDecrypt /\ Len(c_bits) = pub.n)
        => /\ pc \in {"decrypted", "received decrypted"}
           /\ exc = None
           /\ Len(dec) = 2
           /\ IsBits(dec[1], pub.k)
           /\ dec[2] \in BOOLEAN

C13_Witness ==
    /\ pc = "received decrypted"
    /\ scheme.family = "bch" /\ scheme.errors_per_block = BCH_T /\ scheme.L >= 2
    /\ weight(c_bits) > BCH_T + 1
    /\ IsBits(dec[1], pub.k)
    /\ weight(dec[1]) >= 2
    /\ ~dec[2]

\* C14: encrypt raises ValueError exactly when len(m) # pub.k, before any
\* other work (no error vector is drawn, no ciphertext is returned), and
\* decrypt raises ValueError exactly when len(c) # pub.n, returning nothing.
C14_LengthChecked ==
    /\ pc \in {"encrypted", "encrypt raised"}
          => /\ (pc = "encrypt raised") <=> (Len(m_bits) # pub.k)
             /\ pc = "encrypt raised"
                   => /\ exc = ValueError
                      /\ draws = {}
                      /\ e_private = Unbound
                      /\ c_bits = Unbound
             /\ pc = "encrypted"
                   => /\ exc = None
                      /\ draws # {}
                      /\ Len(c_bits) = pub.n
    /\ AfterDecrypt
          => /\ (pc \in {"decrypt raised", "received raised"}) <=> (Len(c_bits) # pub.n)
             /\ pc \in {"decrypt raised", "received raised"}
                   => /\ exc = ValueError
                      /\ dec = Unbound

C14_Witness ==
    /\ pc = "encrypt raised"
    /\ scheme.L >= 2
    /\ Len(m_bits) = pub.k + 1
    /\ exc = ValueError
    /\ draws = {} /\ e_private = Unbound /\ c_bits = Unbound

\* the k x n product m . G_pub, term by term
MessageTimesGpub(m, pk) == List([j \in 1..pk.n |-> DotColumn(m, pk.G_pub, j)])

\* the number of ones of v in the 15-bit window blk (from 0)
OnesInBlock(v, blk) == Cardinality({i \in (blk * N + 1)..((blk + 1) * N) : v[i] = 1})

\* C17: keygen, encrypt and decrypt leave the scheme (its generator matrix
\* and its syndrome table), every field of the keys and their own arguments
\* as they were: the message still encrypts to the ciphertext returned, and
\* the word handed to decrypt is the word decrypt answered for.
StepsLeaveObjects ==
    /\ Constructed => scheme' = scheme
    /\ Keyed => (pub' = pub /\ priv' = priv)
    /\ (pc = "keyed" /\ pc' = "encrypted")
          => /\ m_bits' \in MessageSamples(scheme.k)
             /\ Len(c_bits') = pub.n
             /\ \A j \in 1..pub.n :
                   c_bits'[j] = Xor(DotColumn(m_bits', pub.G_pub, j), e_private'[pub.P[j] + 1])
    /\ (pc = "keyed" /\ pc' = "encrypt raised") => m_bits' \in BadMessages(scheme.k)
    /\ pc = "encrypted" => c_bits' = c_bits
    /\ (pc = "keyed" /\ pc' \in {"received decrypted", "received raised"})
          => c_bits' \in ReceivedWords(scheme.n) \cup BadWords(scheme.n)
    /\ (Keyed /\ scheme.family = "bch") => priv'.synd_table = scheme'.synd_table

C20_ErrorsPerBlock ==
    (pc \in {"encrypted", "decrypted", "decrypt raised"})
        => /\ IsBits(e_private, scheme.n)
           /\ \A blk \in 0..(scheme.L - 1) :
                 OnesInBlock(e_private, blk) = scheme.errors_per_block
           /\ LET diff == VecXor(c_bits, MessageTimesGpub(m_bits, pub))
                  back == apply_permutation(diff, priv.P_inv)
              IN  /\ back = e_private
                  /\ \A blk \in 0..(scheme.L - 1) :
                        OnesInBlock(back, blk) = scheme.errors_per_block

C20_Witness ==
    /\ pc = "encrypted"
    /\ scheme.family = "bch" /\ scheme.errors_per_block = BCH_T /\ scheme.L >= 2
    /\ pub.P[1] # 0
    /\ e_private[1] = 0
    /\ weight(m_bits) >= 2
    /\ OnesInBlock(e_private, 1) = BCH_T
    /\ weight(VecXor(c_bits, MessageTimesGpub(m_bits, pub))) = BCH_T * scheme.L

----------------------------------------------------------------------------
(* Properties of the decoders on arbitrary words.                          *)

\* the syndromes of the errors of at most 1 and at most 2 positions
LightSyndromes1 == {compute_syndrome_vec(UnitVec(N, pos)) : pos \in PosSets(1)}
LightSyndromes2 == {compute_syndrome_vec(UnitVec(N, pos)) : pos \in PosSets(2)}
LightSyndromes(t) == IF t >= 2 THEN LightSyndromes2 ELSE LightSyndromes1

\* C21: BCH decode_block(r, table) raises nothing; when the syndrome of r is
\* not a key it returns (r[0:7], false); when it is a key it returns the 7
\* low coefficients of the quotient q of c = r XOR table[s] by g, with
\* c = q . g + rem and deg rem < 8, and the flag rem = 0.
C21_AbsentSyndrome ==
    (wpc \in {"decoded", "raised"} /\ wcode = "bch")
        => /\ wpc = "decoded"
           /\ LET table == TableOf(wt)
                  syn == compute_syndrome_vec(wword)
              IN  /\ HasKey(table, syn) <=> syn \in LightSyndromes(wt)
                  /\ ~HasKey(table, syn) => wout = <<SubSeq(wword, 1, BCH_K), FALSE>>
                  /\ HasKey(table, syn) =>
                        LET c == bits_to_poly(VecXor(wword, Lookup(table, syn)))
                            q == bits_to_poly(wout[1])
                            rem == XorInt(poly_mul(q, G_POLY), c)
                        IN  /\ IsBits(wout[1], BCH_K)
                            /\ rem < 2 ^ (N - BCH_K)
                            /\ wout[2] = (rem = 0)

C21_Witness ==
    /\ wpc = "decoded" /\ wcode = "bch" /\ wt = BCH_T
    /\ ~HasKey(SyndTable2, compute_syndrome_vec(wword))
    /\ weight(wword) > BCH_T + 1
    /\ wout = <<SubSeq(wword, 1, BCH_K), FALSE>>
    /\ weight(wout[1]) >= 2

HamCodewords == {ham_encode_block(m).value : m \in BitVectors(HAM_K)}

Codewords(fam) == IF fam = "hamming" THEN HamCodewords ELSE BchCodewords

\* C23: for both codes and every 15-bit word w, the syndrome the decoder
\* computes is zero if and only if w = encode_block(m) for some K-bit m.
C23_ZeroSyndromeIffCodeword ==
    wpc \in {"decoded", "raised"}
        => /\ wpc = "decoded"
           /\ (wsyn = 0) <=> (wword \in Codewords(wcode))
           /\ wcode = "hamming" => wsyn \in 0..N
           /\ wcode = "bch" => wsyn = poly_divmod(bits_to_poly(wword), G_POLY).value[2]

C23_Witness ==
    /\ wpc = "decoded" /\ wcode = "hamming"
    /\ wsyn = 0
    /\ weight(wword) = HAM_K - 4
    /\ wword = ham_encode_block(wout[1]).value

\* the words at distance at most 1 from r
Ball1(r) == {VecXor(r, UnitVec(N, pos)) : pos \in PosSets(1)}

\* C25: for every 15-bit word r the message m that syndrome_decode_block
\* returns has encode_block(m) within distance 1 of r, and no other message
\* has: the only codeword in the ball of radius 1 around r is encode_block(m),
\* and the 2^11 messages have 2^11 distinct codewords.
C25_NearestCodeword ==
    (wpc \in {"decoded", "raised"} /\ wcode = "hamming")
        => /\ wpc = "decoded"
           /\ IsBits(wout[1], HAM_K)
           /\ Distance(ham_encode_block(wout[1]).value, wword) <= 1
           /\ Ball1(wword) \cap HamCodewords = {ham_encode_block(wout[1]).value}
           /\ Cardinality(HamCodewords) = 2 ^ HAM_K

C25_Witness ==
    /\ wpc = "decoded" /\ wcode = "hamming"
    /\ wsyn = N
    /\ weight(wword) >= HAM_K
    /\ Distance(ham_encode_block(wout[1]).value, wword) = 1
    /\ wout[2]

\* the codewords within distance 2 of r
Near2(r) == {c \in BchCodewords : Distance(c, r) <= BCH_T}

\* C26: with the T = 2 table, BCH decode_block(r) returns success = true if
\* and only if some codeword lies within distance 2 of r; then that codeword
\* is the only one and the message returned is its message; success = false
\* arises only from a syndrome absent from the table.
C26_SuccessSoundComplete ==
    (wpc \in {"decoded", "raised"} /\ wcode = "bch" /\ wt = BCH_T)
        => /\ wpc = "decoded"
           /\ wout[2] <=> Near2(wword) # {}
           /\ wout[2] => Near2(wword) = {bch_encode_block(wout[1]).value}
           /\ wout[2] <=> HasKey(SyndTable2, wsyn)
           /\ Cardinality(BchCodewords) = 2 ^ BCH_K

C26_Witness ==
    /\ wpc = "decoded" /\ wcode = "bch" /\ wt = BCH_T
    /\ wout[2]
    /\ weight(wout[1]) >= 2
    /\ Distance(bch_encode_block(wout[1]).value, wword) = BCH_T

----------------------------------------------------------------------------
(* Properties of decrypt's loop.                                           *)

\* what the block decoder returns on each of the L blocks of the de-permuted
\* ciphertext, each block decoded on its own
BlockOuts ==
    LET c_perm == apply_permutation(c_bits, priv.P_inv)
    IN  List([b \in 1..pub.L |->
            decode_block(scheme.family, SubSeq(c_perm, (b - 1) * N + 1, b * N),
                         IF scheme.family = "bch" THEN priv.synd_table ELSE None).value])

\* the L per-block messages one after the other
Concatenated(outs, kk) ==
    List([i \in 1..(kk * Len(outs)) |-> outs[((i - 1) \div kk) + 1][1][((i - 1) % kk) + 1]])

\* C22: decrypt decodes all L de-permuted blocks, also after a block has
\* failed: success is true if and only if every block's flag is true, and the
\* bits returned are the L per-block messages, concatenated, times S_inv.
C22_SuccessIsConjunction ==
    (AfterDecrypt /\ Len(c_bits) = pub.n)
        => LET outs == BlockOuts
               decoded == Concatenated(outs, KOf(scheme.family))
           IN  /\ dec[2] <=> \A b \in 1..pub.L : outs[b][2]
               /\ dec[1] = mat_vec_mul(decoded, priv.S_inv).value
               /\ \A j \in 1..pub.k : dec[1][j] = DotColumn(decoded, priv.S_inv, j)

C22_Witness ==
    /\ pc = "received decrypted"
    /\ scheme.family = "bch" /\ scheme.L >= 2
    /\ ~BlockOuts[1][2] /\ BlockOuts[2][2]
    /\ weight(BlockOuts[2][1]) >= 1
    /\ ~dec[2]
    /\ dec[1] = mat_vec_mul(Concatenated(BlockOuts, BCH_K), priv.S_inv).value

----------------------------------------------------------------------------
(* Properties of the GF(2) products.                                       *)

\* the parity of the number of t with A[i][t] = 1 and B[t][j] = 1
ParityOfCommonOnes(A, B, i, j) ==
    Cardinality({t \in 1..Len(B) : A[i][t] = 1 /\ B[t][j] = 1}) % 2

InnerDimensionsMatch == Len(mA[1]) = Len(mB)

\* C24: mat_mul(A, B)[i][j] is the parity of the number of t with
\* A[i][t] = 1 and B[t][j] = 1; mat_vec_mul(v, B) is the one row of
\* mat_mul([v], B); and both raise AssertionError, returning nothing, when the
\* inner dimensions do not match.
C24_ProductEntries ==
    /\ mpc \in {"multiplied", "mul raised", "applied", "vec raised"}
          => /\ (mprod = AssertionError) <=> ~InnerDimensionsMatch
             /\ InnerDimensionsMatch
                   => /\ Len(mprod) = Len(mA)
                      /\ \A i \in 1..Len(mA) :
                            /\ Len(mprod[i]) = Len(mB[1])
                            /\ \A j \in 1..Len(mB[1]) :
                                  mprod[i][j] = ParityOfCommonOnes(mA, mB, i, j)
    /\ mpc = "mul raised" <=> (mpc \in {"multiplied", "mul raised"} /\ ~InnerDimensionsMatch)
    /\ mpc \in {"applied", "vec raised"}
          => /\ (mpc = "vec raised") <=> ~InnerDimensionsMatch
             /\ mpc = "vec raised" => mvec = AssertionError
             /\ mpc = "applied"
                   => /\ mat_mul(<<mA[1]>>, mB) = Return(<<mvec>>)
                      /\ mvec = mprod[1]

C24_Witness ==
    /\ mpc = "applied"
    /\ Len(mA) = 1 /\ Len(mB) = MaxCells
    /\ weight(mA[1]) = MaxCells
    /\ \A t \in 1..MaxCells : mB[t][1] = 1
    /\ mprod = << <<0>> >>
    /\ mvec = <<0>>

----------------------------------------------------------------------------
(* Properties of the numpy tree's block Hamming code.                      *)

\* column j (from 1) of the parity-check matrix
ParityCheckColumn(j) ==
    List([r \in 1..Len(get_parity_check_matrix) |-> get_parity_check_matrix[r][j]])

\* C29: every codeword of BlockHammingCode.encode has the all-zero syndrome
\* in every block, the 15 columns of the parity-check matrix are the 15
\* distinct non-zero 4-bit vectors, and decode(encode(m)) = encode(m).
C29_SelfConsistent ==
    /\ npc = "decoded"
          => /\ \A i \in 1..nL : \A r \in 1..Len(nsyn[i]) : nsyn[i][r] = 0
             /\ ndec = ncode
    /\ npc = "decoded"
          => /\ Cardinality({ParityCheckColumn(j) : j \in 1..n_block}) = n_block
             /\ \A j \in 1..n_block : weight(ParityCheckColumn(j)) > 0

----------------------------------------------------------------------------
(* Properties of the BCH parity-check helper.                              *)

\* the GF(2) inner product of two vectors of one length
Inner(u, v) == parity({i \in 1..Len(u) : u[i] = 1 /\ v[i] = 1})

\* C30: g(x) divides x^15 + 1, so compute_h_poly raises nothing, and
\* parity_check_matrix() has 8 rows of 15 bits, each orthogonal over GF(2) to
\* encode_block(m) for every 7-bit message m.
C30_ParityCheckOrthogonal ==
    (bpc = "encoded" /\ bcode = "bch")
        => /\ ~compute_h_poly.raised
           /\ poly_mul(H_POLY, G_POLY) = 2 ^ 15 + 1
           /\ Len(parity_check_matrix) = N - BCH_K
           /\ \A row \in 1..(N - BCH_K) :
                  /\ IsBits(parity_check_matrix[row], N)
                  /\ Inner(parity_check_matrix[row], bword) = 0

----------------------------------------------------------------------------
(* Properties of the LRU simulator.                                        *)

\* the distinct pages of a sequence of accesses, the most recently used first
RECURSIVE MostRecentFirst(_)
MostRecentFirst(seq) ==
    IF seq = <<>> THEN <<>>
    ELSE LET last == seq[Len(seq)]
             before == MostRecentFirst(SubSeq(seq, 1, Len(seq) - 1))
         IN  <<last>> \o SelectSeq(before, LAMBDA q : q # last)

\* the reference LRU cache of capacity PHYS_PAGES after a sequence of accesses
ReferenceCache(seq) ==
    LET order == MostRecentFirst(seq)
    IN  SubSeq(order, 1, IF Len(order) < PHYS_PAGES THEN Len(order) ELSE PHYS_PAGES)

Members(seq) == {seq[i] : i \in 1..Len(seq)}

OccupiedFrames(frs) == {i \in 1..Len(frs) : frs[i][1] # -1}

ResidentPages(frs) == {frs[i][1] : i \in OccupiedFrames(frs)}

\* one access, set against the reference cache before and after it
FollowsReference ==
    LET page == access_sequence'[Len(access_sequence')]
        cache == ReferenceCache(access_sequence)
        resident == ResidentPages(frames)
        hit == page \in Members(cache)
    IN  /\ hit_count' = hit_count + (IF hit THEN 1 ELSE 0)
        /\ miss_count' = miss_count + (IF hit THEN 0 ELSE 1)
        /\ hit => ResidentPages(frames') = resident
        /\ (~hit /\ Cardinality(OccupiedFrames(frames)) < PHYS_PAGES)
              => /\ ResidentPages(frames') = resident \cup {page}
                 /\ \A i \in OccupiedFrames(frames) : frames'[i] = frames[i]
        /\ (~hit /\ Cardinality(OccupiedFrames(frames)) = PHYS_PAGES)
              => \E i \in 1..PHYS_PAGES :
                     /\ \A j \in 1..PHYS_PAGES : frames[i][2] <= frames[j][2]
                     /\ frames[i][1] = cache[PHYS_PAGES]
                     /\ ResidentPages(frames') = (resident \ {frames[i][1]}) \cup {page}
        /\ ResidentPages(frames') = Members(ReferenceCache(access_sequence'))

\* C27: step by step lru_page_replacement agrees with a reference LRU cache
\* of capacity PHYS_PAGES: an access counts as a hit iff the page is among
\* the PHYS_PAGES most recently used distinct pages, a miss fills an empty
\* frame while there is one and otherwise replaces the resident page whose
\* last access is oldest, and a hit leaves the resident set alone.
C27_FollowsLRU == [][FollowsReference]_vars

\* three frames full, then a hit and an eviction
C27_Witness ==
    /\ clock = MaxSteps
    /\ hit_count >= 1
    /\ miss_count > PHYS_PAGES
    /\ ResidentPages(frames) = Members(ReferenceCache(access_sequence))

\* the state after one access, s being the clock before the increment
AfterAccessInvariants ==
    LET s == clock
        page == access_sequence'[Len(access_sequence')]
        occupied == OccupiedFrames(frames')
    IN  /\ clock' = s + 1
        /\ \A i, j \in occupied : i # j => frames'[i][1] # frames'[j][1]
        /\ \E i \in occupied : frames'[i] = <<page, s>>
        /\ \A i, j \in occupied : i # j => frames'[i][2] # frames'[j][2]
        /\ \A i \in occupied : frames'[i][2] >= 0 /\ frames'[i][2] < clock'
        /\ Cardinality(occupied) >= Cardinality(OccupiedFrames(frames))
        /\ hit_count' + miss_count' = Len(access_sequence')
        /\ Len(access_sequence') = clock'

\* C28: after each processed access no page occupies two frames, the page
\* just accessed is resident with last-access time s, the last-access times
\* of the occupied frames are pairwise distinct and below the clock, the
\* number of occupied frames has not decreased, and hit_count + miss_count is
\* the number of accesses processed.
C28_StateInvariants == [][AfterAccessInvariants]_vars

\* a run with two hits and two evictions
C28_Witness ==
    /\ hit_count >= 2
    /\ miss_count >= PHYS_PAGES + 1
    /\ Cardinality(OccupiedFrames(frames)) = PHYS_PAGES
    /\ hit_count + miss_count = clock

============================================================================
